---- MODULE Spec2Model ----
(***************************************************************************)
(* Session lifecycle (signup, login, session validation) and ledger        *)
(* funding of the banking application, as state machines over the          *)
(* relational store.  Every awaited storage call of a handler is one       *)
(* atomic step; requests of different callers interleave between steps.    *)
(*                                                                         *)
(* Time is counted in minutes.  Money is counted in mills (1/1000 dollar)  *)
(* where the code holds a decimal dollar value, and in integer cents where *)
(* the code holds cents.                                                   *)
(***************************************************************************)
EXTENDS Integers, Sequences, FiniteSets, TLC

VARIABLES
    now,            \* wall clock, minutes
    ticks,          \* number of clock advances so far
    users,          \* users table: set of rows
    sessions,       \* sessions table: set of rows
    issued,         \* every token ever signed (what a client may present)
    seeded,         \* number of session rows written directly by a fixture
    accounts,       \* accounts table: id -> row
    transactions,   \* transactions table: sequence of rows, id = position
    pc,             \* per request slot: position in its handler
    loc,            \* per request slot: the handler's locals and result
    started,        \* number of requests started so far
    env,            \* process.env: ENCRYPTION_KEY and ENCRYPTION_SALT
    vault           \* the fields encryptSSN has returned so far, in order

vars == <<now, ticks, users, sessions, issued, seeded, accounts,
          transactions, pc, loc, started, env, vault>>

authVars == <<users, sessions, issued, seeded>>
ledgerVars == <<accounts, transactions>>
clockVars == <<now, ticks>>
cipherVars == <<env, vault>>

-----------------------------------------------------------------------------
(* Bounds of the model *)

NumProcs == 2
MaxReqs == 3
MaxTicks == 1
MaxSeeds == 1

Procs == 1..NumProcs

-----------------------------------------------------------------------------
(* Program constants *)

\* expiresIn: "7d" / setDate(getDate() + 7), in minutes
SESSION_LIFETIME == 10080
\* the proactive expiry buffer, in minutes
SESSION_BUFFER == 5
\* funding limits in mills: $10.00 and $10,000.00
MIN_FUNDING == 10000
MAX_FUNDING == 10000000

\* email addresses, one character per element: two mailboxes, sent in
\* normal form
Emails ==
    { <<"a", "@", "x", ".", "i", "o">>,
      <<"b", "@", "x", ".", "i", "o">> }

\* the addresses sent to signup: those, and the first mailbox in upper case
\* with surrounding blanks
SentEmails ==
    Emails \cup { <<" ", "A", "@", "X", ".", "I", "O", " ">> }

UpperCase ==
    <<"A", "B", "C", "D", "E", "F", "G", "H", "I", "J", "K", "L", "M",
      "N", "O", "P", "Q", "R", "S", "T", "U", "V", "W", "X", "Y", "Z">>

LowerCase ==
    <<"a", "b", "c", "d", "e", "f", "g", "h", "i", "j", "k", "l", "m",
      "n", "o", "p", "q", "r", "s", "t", "u", "v", "w", "x", "y", "z">>

\* the characters String.prototype.trim removes (those a test sends)
Whitespace == {" ", "\t", "\n"}

\* String.prototype.toLowerCase, one character
ToLowerCase(c) ==
    IF \E i \in DOMAIN UpperCase : UpperCase[i] = c
       THEN LowerCase[CHOOSE i \in DOMAIN UpperCase : UpperCase[i] = c]
       ELSE c

RECURSIVE TrimStart(_)
TrimStart(str) ==
    IF str # <<>> /\ Head(str) \in Whitespace THEN TrimStart(Tail(str)) ELSE str

RECURSIVE TrimEnd(_)
TrimEnd(str) ==
    IF str # <<>> /\ str[Len(str)] \in Whitespace
       THEN TrimEnd(SubSeq(str, 1, Len(str) - 1))
       ELSE str

\* String.prototype.trim
Trim(str) == TrimEnd(TrimStart(str))

\* a normalisation that lower-cases but keeps surrounding blanks
NormalizeEmailNoTrim(email) ==
    [i \in DOMAIN email |-> ToLowerCase(email[i])]

\* normalizeEmail: email.trim().toLowerCase()
NormalizeEmail(email) ==
    [i \in DOMAIN Trim(email) |-> ToLowerCase(Trim(email)[i])]

\* the input schema's transform of the email field: what input.email is for
\* each address a client sends
InputEmail == [email \in SentEmails |-> NormalizeEmail(email)]

\* the values input.email takes
Mailboxes == {InputEmail[email] : email \in SentEmails}

\* user ids (autoincrement from 1, one per signed-up mailbox)
Principals == 1..Cardinality(Mailboxes)
Passwords == {"TestPassword123!@#", "WrongPassword123!@#"}

\* a password of 122 characters, and one that differs from it from the 73rd
\* character on
LongPassword ==
    "VeryLongPassword123!@#xxxxxxxxxxxxxxxxxxxxxxxxxxxxxxxxxxxxxxx"
    \o "xxxxxxxxxxxxxxxxxxxxxxxxxxxxxxxxxxxxxxxxxxxxxxxxxxxxxxxxxxxxx"
LongPasswordOther ==
    "VeryLongPassword123!@#xxxxxxxxxxxxxxxxxxxxxxxxxxxxxxxxxxxxxxx"
    \o "xxxxxxxxxxxyyyyyyyyyyyyyyyyyyyyyyyyyyyyyyyyyyyyyyyyyyyyyyyyyy"

\* the passwords sent to signup (each satisfies the password policy), and
\* those sent to login: the same, one in lower case, and wrong ones
SignupPasswords == {"TestPassword123!@#", LongPassword}
LoginPasswords ==
    Passwords \cup {"testpassword123!@#", LongPassword, LongPasswordOther}

\* clock advances: one minute, and up to the two expiry boundaries of a
\* session issued now (the start of the buffer, the embedded expiry)
TickSteps == {1, SESSION_LIFETIME - SESSION_BUFFER, SESSION_LIFETIME}

\* deposit amounts in mills: $5 (below the minimum), $37.426 (within the
\* limits, not a whole number of cents), $15,000 (above the maximum)
FundAmounts == {5000, 37426, 15000000}

NoLoc == [op |-> "none"]
Unauthenticated == 0

-----------------------------------------------------------------------------
(* Pure helpers *)

\* the number of input bytes bcrypt takes into the hash
BCRYPT_INPUT_BYTES == 72

\* bcrypt.hash(password, 10): an opaque value that is not the password; it
\* is computed from the first BCRYPT_INPUT_BYTES bytes of the password
BcryptHash(password) ==
    <<"$2a$10$",
      IF Len(password) > BCRYPT_INPUT_BYTES
         THEN SubSeq(password, 1, BCRYPT_INPUT_BYTES)
         ELSE password>>

\* bcrypt.compare(password, hash)
BcryptCompare(password, hash) == hash = BcryptHash(password)

\* jwt.sign({ userId }, secret, { expiresIn: "7d" }) at time t
JwtSign(userId, t) ==
    [userId |-> userId, iat |-> t, exp |-> t + SESSION_LIFETIME, sig |-> "valid"]

\* the token layer of validate: signature and embedded expiry
JwtVerify(token, t) == token.sig = "valid" /\ t < token.exp

\* a session row that expires one day after its creation
ExpiresAtOneDay(t) == t + 1440

\* new Date(); setDate(getDate() + 7)
ExpiresAt(t) == t + SESSION_LIFETIME

UserByEmail(email) == {u \in users : u.email = email}

SessionsOfUser(rows, userId) == {s \in rows : s.userId = userId}

SessionsByToken(rows, token) == {s \in rows : s.token = token}

\* a login that leaves the principal's old rows in place
DeleteSessionsOfUserNone(rows, userId) == rows

\* a login that clears the whole session table
DeleteSessionsOfEveryone(rows, userId) == {}

\* db.delete(sessions).where(eq(sessions.userId, user.id))
DeleteSessionsOfUser(rows, userId) == {s \in rows : s.userId # userId}

\* a buffer test that lets a session expiring exactly at the buffer pass
BufferExpiredStrict(expiresAt, t) == expiresAt < t + SESSION_BUFFER

\* validate's buffer test: expiresAt <= now + buffer
BufferExpired(expiresAt, t) == expiresAt <= t + SESSION_BUFFER

\* Math.round(value * 100) of a non-negative dollar value given in mills
RoundCents(mills) == (mills + 5) \div 10

\* cents / 100: the dollar value, in mills
CentsToDollars(cents) == cents * 10

\* a new balance by plain decimal addition, without rounding to cents
NewBalanceDrift(balance, amount) == balance + amount

\* the balance a deposit stores: both operands rounded to cents, summed as
\* integers, divided back
NewBalance(balance, amount) ==
    LET currentBalanceInCents == RoundCents(balance)
        amountInCents == RoundCents(amount)
        newBalanceInCents == currentBalanceInCents + amountInCents
    IN  CentsToDollars(newBalanceInCents)

IsCompletedDeposit(tx, accountId) ==
    tx.accountId = accountId /\ tx.type = "deposit" /\ tx.status = "completed"

RECURSIVE SumDepositCents(_, _)
SumDepositCents(txs, accountId) ==
    IF txs = <<>> THEN 0
    ELSE (IF IsCompletedDeposit(Head(txs), accountId)
             THEN RoundCents(Head(txs).amount) ELSE 0)
         + SumDepositCents(Tail(txs), accountId)

TransactionsOf(accountId) ==
    SelectSeq(transactions, LAMBDA tx : tx.accountId = accountId)

\* the id the accounts table gives the next inserted row
NextAccountId(rows) ==
    IF DOMAIN rows = {} THEN 1
    ELSE (CHOOSE a \in DOMAIN rows : \A b \in DOMAIN rows : b <= a) + 1

\* ids of the account rows with the given account number
AccountsByNumber(rows, accountNumber) ==
    {a \in DOMAIN rows : rows[a].accountNumber = accountNumber}

\* ids of the account rows of a user with the given type
AccountsOfType(rows, userId, accountType) ==
    {a \in DOMAIN rows :
        rows[a].userId = userId /\ rows[a].accountType = accountType}

\* select ... where id = accountId and userId = ctx.user.id
OwnedAccount(rows, userId, accountId) ==
    accountId \in DOMAIN rows /\ rows[accountId].userId = userId

\* a page count that rounds down
TotalPagesFloor(totalCount, limit) == totalCount \div limit

\* Math.ceil(totalCount / limit)
TotalPages(totalCount, limit) == (totalCount + limit - 1) \div limit

-----------------------------------------------------------------------------
(* Initial states *)

\* the key configurations of the process: the one of the tests, one without
\* ENCRYPTION_SALT, one without ENCRYPTION_KEY, and one whose salt is
\* neither 128 hex characters nor base64 of 64 bytes ("" stands for unset)
TestEnv ==
    [ENCRYPTION_KEY |->
         "a6bee235e13a32abea12cf49ebb32f826cb2d256db9eb1b13356bff74cc0f9fe",
     ENCRYPTION_SALT |->
         "c393c71185235c6e4f8930695009544e6c9f4dcf35806e87ef8fc93cd35d854a"
         \o "73d30e7844b4cf2b6e74e1cdd5908eb6a884be0894b42af65e8dacfdd7a8de5e"]
Envs ==
    {TestEnv,
     [TestEnv EXCEPT !.ENCRYPTION_SALT = ""],
     [TestEnv EXCEPT !.ENCRYPTION_KEY = ""],
     [TestEnv EXCEPT !.ENCRYPTION_SALT = "c2FsdA=="]}

\* the empty store
Init ==
    /\ now = 0
    /\ ticks = 0
    /\ users = {}
    /\ sessions = {}
    /\ issued = {}
    /\ seeded = 0
    /\ accounts = <<>>
    /\ transactions = <<>>
    /\ pc = [p \in Procs |-> "idle"]
    /\ loc = [p \in Procs |-> NoLoc]
    /\ started = 0
    /\ env = TestEnv
    /\ vault = <<>>

\* the store after principal 1 has opened a checking account (createAccount
\* inserts balance 0 and status active); principal 2 holds no account
LedgerInit ==
    /\ now = 0
    /\ ticks = 0
    /\ users = {}
    /\ sessions = {}
    /\ issued = {}
    /\ seeded = 0
    /\ accounts = <<[userId |-> 1, accountNumber |-> "0000000001",
                     accountType |-> "checking", balance |-> 0,
                     status |-> "active"]>>
    /\ transactions = <<>>
    /\ pc = [p \in Procs |-> "idle"]
    /\ loc = [p \in Procs |-> NoLoc]
    /\ started = 0
    /\ env = TestEnv
    /\ vault = <<>>

-----------------------------------------------------------------------------
(* Request bookkeeping *)

Goto(p, label, locals) ==
    /\ pc' = [pc EXCEPT ![p] = label]
    /\ loc' = [loc EXCEPT ![p] = locals]

\* a thrown TRPCError (or a rejected storage call) ends the request
Throw(p, code) ==
    Goto(p, "failed", [op |-> loc[p].op, error |-> code])

\* a slot whose request has returned or thrown serves the next request
Finished(p) == pc[p] \in {"idle", "done", "failed"}

CanStart(p) == Finished(p) /\ started < MaxReqs

Tick(d) ==
    /\ ticks < MaxTicks
    /\ now' = now + d
    /\ ticks' = ticks + 1
    /\ UNCHANGED <<authVars, ledgerVars, cipherVars, pc, loc, started>>

-----------------------------------------------------------------------------
(* authRouter.signup *)

\* the request arrives, the input schema normalises the email and the
\* handler looks it up; an existing user is a CONFLICT (sent: the address of
\* the rejected request as the client sent it)
SignupCheck(p, email, password) ==
    /\ CanStart(p)
    /\ started' = started + 1
    /\ LET input == [email |-> InputEmail[email], password |-> password] IN
       IF UserByEmail(input.email) # {}
          THEN Goto(p, "failed",
                    [op |-> "signup", error |-> "CONFLICT", sent |-> email])
          ELSE Goto(p, "signup_insert",
                    [op |-> "signup", email |-> input.email,
                     password |-> input.password])
    /\ UNCHANGED <<authVars, ledgerVars, clockVars, cipherVars>>

\* an insert into a users table whose emails are not constrained
SignupInsertUnconstrained(p) ==
    /\ pc[p] = "signup_insert"
    /\ users' = users \cup
           {[id |-> Cardinality(users) + 1, email |-> loc[p].email,
             password |-> BcryptHash(loc[p].password)]}
    /\ Goto(p, "signup_fetch", loc[p])
    /\ UNCHANGED <<sessions, issued, seeded, ledgerVars, clockVars, cipherVars,
                   started>>

\* bcrypt.hash, then insert the user row; users.email is a unique column, so
\* a row inserted meanwhile for the same email makes the insert reject
SignupInsert(p) ==
    /\ pc[p] = "signup_insert"
    /\ IF UserByEmail(loc[p].email) # {}
          THEN /\ Throw(p, "SQLITE_CONSTRAINT")
               /\ UNCHANGED users
          ELSE /\ users' = users \cup
                     {[id |-> Cardinality(users) + 1, email |-> loc[p].email,
                       password |-> BcryptHash(loc[p].password)]}
               /\ Goto(p, "signup_fetch", loc[p])
    /\ UNCHANGED <<sessions, issued, seeded, ledgerVars, clockVars, cipherVars,
                   started>>

\* fetch the created user
SignupFetch(p) ==
    /\ pc[p] = "signup_fetch"
    /\ LET found == UserByEmail(loc[p].email) IN
       IF found = {}
          THEN Throw(p, "INTERNAL_SERVER_ERROR")
          ELSE Goto(p, "signup_session",
                    [loc[p] EXCEPT !.password = "undefined"]
                        @@ [userId |-> (CHOOSE u \in found : TRUE).id])
    /\ UNCHANGED <<authVars, ledgerVars, clockVars, cipherVars, started>>

\* sign the token, insert the session row (sessions.token is a unique
\* column), set the cookie and return {user, token}
CreateSession(p) ==
    LET token == JwtSign(loc[p].userId, now) IN
    IF SessionsByToken(sessions, token) # {}
       THEN /\ Throw(p, "SQLITE_CONSTRAINT")
            /\ UNCHANGED <<sessions, issued>>
       ELSE /\ sessions' = sessions \cup
                  {[userId |-> loc[p].userId, token |-> token,
                    expiresAt |-> ExpiresAt(now)]}
            /\ issued' = issued \cup {token}
            /\ Goto(p, "done", loc[p] @@ [token |-> token])

SignupSession(p) ==
    /\ pc[p] = "signup_session"
    /\ CreateSession(p)
    /\ UNCHANGED <<users, seeded, ledgerVars, clockVars, cipherVars, started>>

-----------------------------------------------------------------------------
(* authRouter.login *)

NoError == [code |-> "OK", message |-> ""]

\* a login whose error for an unknown email names the missing user
LoginErrorRevealing(email, password) ==
    LET found == UserByEmail(email) IN
    IF found = {}
       THEN [code |-> "NOT_FOUND", message |-> "User not found"]
    ELSE IF ~BcryptCompare(password, (CHOOSE u \in found : TRUE).password)
       THEN [code |-> "UNAUTHORIZED", message |-> "Invalid credentials"]
    ELSE NoError

\* the TRPCError login throws for the normalised email and the password:
\* one throw for an unknown email, one for a password that does not match
LoginError(email, password) ==
    LET found == UserByEmail(email) IN
    IF found = {}
       THEN [code |-> "UNAUTHORIZED", message |-> "Invalid credentials"]
    ELSE IF ~BcryptCompare(password, (CHOOSE u \in found : TRUE).password)
       THEN [code |-> "UNAUTHORIZED", message |-> "Invalid credentials"]
    ELSE NoError

\* a login that deletes the sessions of the user it found before it compares
\* the password
LoginFindDeleteFirst(p, email, password) ==
    /\ CanStart(p)
    /\ started' = started + 1
    /\ LET input == [email |-> InputEmail[email], password |-> password]
           error == LoginError(input.email, input.password)
       IN  /\ sessions' = {s \in sessions :
                               \A u \in UserByEmail(input.email) :
                                   s.userId # u.id}
           /\ IF error # NoError
                 THEN Goto(p, "failed",
                           [op |-> "login", error |-> error.code,
                            message |-> error.message])
                 ELSE Goto(p, "login_delete",
                           [op |-> "login", email |-> input.email,
                            userId |-> (CHOOSE u \in UserByEmail(input.email) :
                                           TRUE).id])
    /\ UNCHANGED <<users, issued, seeded, ledgerVars, clockVars, cipherVars>>

\* the request arrives, the input schema normalises the email, the handler
\* looks the user up and compares the password
LoginFind(p, email, password) ==
    /\ CanStart(p)
    /\ started' = started + 1
    /\ LET input == [email |-> InputEmail[email], password |-> password]
           error == LoginError(input.email, input.password)
       IN  IF error # NoError
              THEN Goto(p, "failed",
                        [op |-> "login", error |-> error.code,
                         message |-> error.message])
              ELSE Goto(p, "login_delete",
                        [op |-> "login", email |-> input.email,
                         userId |-> (CHOOSE u \in UserByEmail(input.email) :
                                        TRUE).id])
    /\ UNCHANGED <<authVars, ledgerVars, clockVars, cipherVars>>

\* delete every session row of the principal
LoginDelete(p) ==
    /\ pc[p] = "login_delete"
    /\ sessions' = DeleteSessionsOfUser(sessions, loc[p].userId)
    /\ Goto(p, "login_insert",
            loc[p] @@ [deleted |->
                Cardinality(SessionsOfUser(sessions, loc[p].userId))])
    /\ UNCHANGED <<users, issued, seeded, ledgerVars, clockVars, cipherVars,
                   started>>

\* sign the token, insert the session row, set the cookie, return
LoginInsert(p) ==
    /\ pc[p] = "login_insert"
    /\ CreateSession(p)
    /\ UNCHANGED <<users, seeded, ledgerVars, clockVars, cipherVars, started>>

-----------------------------------------------------------------------------
(* SessionManager.validate (the request context's session check) *)

\* what a client can present: a token that was signed, or the token of a
\* stored session with a signature that does not verify
Presentable ==
    issued \cup {[s.token EXCEPT !.sig = "forged"] : s \in sessions}

\* a validate that renews the row of a session it accepts
ValidateStoredSliding(rows, token, t) ==
    LET found == SessionsByToken(rows, token) IN
    IF found = {}
       THEN [result |-> Unauthenticated, rows |-> rows, found |-> found]
    ELSE LET session == CHOOSE s \in found : TRUE IN
         IF BufferExpired(session.expiresAt, t)
            THEN [result |-> Unauthenticated, rows |-> rows \ found,
                  found |-> found]
            ELSE [result |-> session.userId,
                  rows |-> (rows \ found)
                      \cup {[session EXCEPT !.expiresAt = ExpiresAt(t)]},
                  found |-> found]

\* validate once the token layer has accepted: look the row up by token,
\* delete it if it is inside the buffer, else resolve the principal
ValidateStored(rows, token, t) ==
    LET found == SessionsByToken(rows, token) IN
    IF found = {}
       THEN [result |-> Unauthenticated, rows |-> rows, found |-> found]
    ELSE LET session == CHOOSE s \in found : TRUE IN
         IF BufferExpired(session.expiresAt, t)
            THEN [result |-> Unauthenticated, rows |-> rows \ found,
                  found |-> found]
            ELSE [result |-> session.userId, rows |-> rows, found |-> found]

\* a validate that also removes the row of a token the token layer rejects
ValidateOutcomeCleanup(rows, token, t) ==
    IF ~JwtVerify(token, t)
       THEN [result |-> Unauthenticated,
             rows |-> rows \ SessionsByToken(rows, token), found |-> {}]
       ELSE ValidateStored(rows, token, t)

\* the outcome of validate(token) against rows at time t: the principal or
\* Unauthenticated, the rows left in the store, and the row that was read
ValidateOutcome(rows, token, t) ==
    IF ~JwtVerify(token, t)
       THEN [result |-> Unauthenticated, rows |-> rows, found |-> {}]
       ELSE ValidateStored(rows, token, t)

Validate(p, token) ==
    /\ CanStart(p)
    /\ started' = started + 1
    /\ LET out == ValidateOutcome(sessions, token, now) IN
       /\ sessions' = out.rows
       /\ Goto(p, "done",
               [op |-> "validate", token |-> token, at |-> now,
                found |-> out.found,
                result |-> out.result])
    /\ UNCHANGED <<users, issued, seeded, ledgerVars, clockVars, cipherVars>>

-----------------------------------------------------------------------------
(* Session rows written directly into the store by a test fixture: a token   *)
(* signed with an explicit iat, and a row expiring 7 days from now           *)

SeedSession(userId) ==
    LET token == JwtSign(userId, now + seeded + 1) IN
    /\ seeded < MaxSeeds
    /\ \A p \in Procs : Finished(p)
    /\ \E u \in users : u.id = userId
    /\ SessionsByToken(sessions, token) = {}
    /\ sessions' = sessions \cup
           {[userId |-> userId, token |-> token, expiresAt |-> ExpiresAt(now)]}
    /\ issued' = issued \cup {token}
    /\ seeded' = seeded + 1
    /\ UNCHANGED <<users, ledgerVars, clockVars, cipherVars, pc, loc, started>>

-----------------------------------------------------------------------------
(* Specifications of the session lifecycle *)

SignupStep(p) ==
    \/ \E email \in Emails, password \in Passwords :
           SignupCheck(p, email, password)
    \/ SignupInsert(p)
    \/ SignupFetch(p)
    \/ SignupSession(p)

LoginStep(p) ==
    \/ \E email \in Emails, password \in Passwords :
           LoginFind(p, email, password)
    \/ LoginDelete(p)
    \/ LoginInsert(p)

AuthStep(p) ==
    \/ SignupStep(p)
    \/ LoginStep(p)
    \/ \E token \in Presentable : Validate(p, token)

\* requests of several callers interleave at every storage call
NextAuth ==
    \/ \E p \in Procs : AuthStep(p)
    \/ \E d \in TickSteps : Tick(d)

SpecAuth == Init /\ [][NextAuth]_vars

\* one request at a time, all served by the first slot; between requests
\* session rows may also be written directly by a fixture
NextAuthSeq ==
    \/ AuthStep(1)
    \/ \E userId \in Principals : SeedSession(userId)
    \/ \E d \in TickSteps : Tick(d)

SpecAuthSeq == Init /\ [][NextAuthSeq]_vars

\* signups and logins one after the other, with every password sent
NextCredentials ==
    \/ \E email \in Emails, password \in SignupPasswords :
           SignupCheck(1, email, password)
    \/ SignupInsert(1)
    \/ SignupFetch(1)
    \/ SignupSession(1)
    \/ \E email \in Emails, password \in LoginPasswords :
           LoginFind(1, email, password)
    \/ LoginDelete(1)
    \/ LoginInsert(1)

SpecCredentials == Init /\ [][NextCredentials]_vars

\* concurrent signups only, also with addresses that are not in normal form
NextSignup ==
    \E p \in Procs :
        \/ \E email \in SentEmails, password \in Passwords :
               SignupCheck(p, email, password)
        \/ SignupInsert(p)
        \/ SignupFetch(p)
        \/ SignupSession(p)

SpecSignup == Init /\ [][NextSignup]_vars

-----------------------------------------------------------------------------
(* authRouter.logout, called with the context's user (Unauthenticated when   *)
(* the context resolved none) and the token of the session cookie            *)

\* the cookie carries no session entry: the token is undefined
NoToken == [userId |-> Unauthenticated, iat |-> 0, exp |-> 0, sig |-> "undefined"]

LogoutSucceeded == "Logged out successfully"
LogoutFailed == "Failed to log out - session may still be active"
LogoutNoSession == "No active session"

\* a logout that reports success for every principal, verified or not
LogoutResultUnverified(user, deleted) ==
    [success |-> TRUE,
     message |-> IF user # Unauthenticated THEN LogoutSucceeded
                 ELSE LogoutNoSession]

\* a logout that reports "No active session" whenever nothing was deleted
LogoutResultSilent(user, deleted) ==
    [success |-> deleted \/ user = Unauthenticated,
     message |-> IF deleted THEN LogoutSucceeded ELSE LogoutNoSession]

\* the value logout returns
LogoutResult(user, deleted) ==
    [success |-> deleted \/ user = Unauthenticated,
     message |-> IF deleted THEN LogoutSucceeded
                 ELSE IF user # Unauthenticated THEN LogoutFailed
                 ELSE LogoutNoSession]

\* the cookie is cleared in every case, then the result is returned; found
\* tells whether the select by token returned a row, reads and writes count
\* the storage calls the handler made
LogoutReturn(p, user, token, found, deleted, reads, writes) ==
    Goto(p, "done",
         [op |-> "logout", user |-> user, token |-> token, found |-> found,
          deleted |-> deleted, reads |-> reads, writes |-> writes,
          setCookie |-> "session=; Path=/; HttpOnly; SameSite=Strict; Max-Age=0",
          success |-> LogoutResult(user, deleted).success,
          message |-> LogoutResult(user, deleted).message])

\* a logout that looks the token up whether or not the context has a user
LogoutFindAnyone(p, user, token) ==
    /\ CanStart(p)
    /\ started' = started + 1
    /\ IF token = NoToken
          THEN LogoutReturn(p, user, token, FALSE, FALSE, 0, 0)
       ELSE IF SessionsByToken(sessions, token) = {}
          THEN LogoutReturn(p, user, token, FALSE, FALSE, 1, 0)
       ELSE Goto(p, "logout_delete",
                 [op |-> "logout", user |-> user, token |-> token])
    /\ UNCHANGED <<authVars, ledgerVars, clockVars, cipherVars>>

\* the request arrives; with a user and a token the handler selects the
\* session row by token, and returns at once when there is none
LogoutFind(p, user, token) ==
    /\ CanStart(p)
    /\ started' = started + 1
    /\ IF user = Unauthenticated \/ token = NoToken
          THEN LogoutReturn(p, user, token, FALSE, FALSE, 0, 0)
       ELSE IF SessionsByToken(sessions, token) = {}
          THEN LogoutReturn(p, user, token, FALSE, FALSE, 1, 0)
       ELSE Goto(p, "logout_delete",
                 [op |-> "logout", user |-> user, token |-> token])
    /\ UNCHANGED <<authVars, ledgerVars, clockVars, cipherVars>>

\* delete the session row by token
LogoutDelete(p) ==
    /\ pc[p] = "logout_delete"
    /\ sessions' = sessions \ SessionsByToken(sessions, loc[p].token)
    /\ Goto(p, "logout_verify", loc[p])
    /\ UNCHANGED <<users, issued, seeded, ledgerVars, clockVars, cipherVars,
                   started>>

\* select by token again: deleted = !verifyDeleted
LogoutVerify(p) ==
    /\ pc[p] = "logout_verify"
    /\ LET verifyDeleted == SessionsByToken(sessions, loc[p].token)
           deleted == verifyDeleted = {}
       IN  LogoutReturn(p, loc[p].user, loc[p].token, TRUE, deleted, 2, 1)
    /\ UNCHANGED <<authVars, ledgerVars, clockVars, cipherVars, started>>

LogoutStep(p) ==
    \/ \E user \in {Unauthenticated} \cup {u.id : u \in users},
          token \in {NoToken} \cup Presentable : LogoutFind(p, user, token)
    \/ LogoutDelete(p)
    \/ LogoutVerify(p)

\* the store after the first mailbox has signed up at time 0: one user and
\* the session row of the signup
SessionInit ==
    /\ now = 0
    /\ ticks = 0
    /\ users = {[id |-> 1, email |-> <<"a", "@", "x", ".", "i", "o">>,
                 password |-> BcryptHash("TestPassword123!@#")]}
    /\ sessions = {[userId |-> 1, token |-> JwtSign(1, 0),
                    expiresAt |-> ExpiresAt(0)]}
    /\ issued = {JwtSign(1, 0)}
    /\ seeded = 0
    /\ accounts = <<>>
    /\ transactions = <<>>
    /\ pc = [p \in Procs |-> "idle"]
    /\ loc = [p \in Procs |-> NoLoc]
    /\ started = 0
    /\ env = TestEnv
    /\ vault = <<>>

\* concurrent logins and logouts of a signed-up principal, all within one
\* clock unit
NextSession == \E p \in Procs : LoginStep(p) \/ LogoutStep(p)

SpecSession == SessionInit /\ [][NextSession]_vars

\* a logout request as the server handles it: the context resolves ctx.user
\* from the token of the session cookie, and the handler reads the same
\* cookie
LogoutRequest(p, token) ==
    \E out \in {ValidateOutcome(sessions, token, now)} :
        /\ out.rows = sessions
        /\ LogoutFind(p, out.result, token)

\* signups, logins and logouts of two mailboxes, interleaved at every storage
\* call; the first mailbox has signed up, the second has not
NextIsolation ==
    \E p \in Procs :
        \/ \E email \in Emails : SignupCheck(p, email, "TestPassword123!@#")
        \/ SignupInsert(p)
        \/ SignupFetch(p)
        \/ SignupSession(p)
        \/ \E email \in Emails : LoginFind(p, email, "TestPassword123!@#")
        \/ LoginDelete(p)
        \/ LoginInsert(p)
        \/ \E token \in {NoToken} \cup Presentable : LogoutRequest(p, token)
        \/ LogoutDelete(p)
        \/ LogoutVerify(p)

SpecIsolation == SessionInit /\ [][NextIsolation]_vars

-----------------------------------------------------------------------------
(* Funding sources: validateCardNumber and the fundAccount input schema *)

Digits == {"0", "1", "2", "3", "4", "5", "6", "7", "8", "9"}

\* Number(c) of a digit character
DigitValue(c) ==
    CHOOSE n \in 0..9 : <<"0", "1", "2", "3", "4", "5", "6", "7", "8", "9">>[n + 1] = c

\* the card numbers a client sends
CardNumbers ==
    {\* a Visa test number
     <<"4", "1", "1", "1", "1", "1", "1", "1", "1", "1",
       "1", "1", "1", "1", "1", "1">>,
     \* an American Express test number, written with dashes
     <<"3", "7", "8", "2", "-", "8", "2", "2", "4", "6",
       "3", "-", "1", "0", "0", "0", "5">>,
     \* the Visa number with its last digit off by one
     <<"4", "1", "1", "1", "1", "1", "1", "1", "1", "1",
       "1", "1", "1", "1", "1", "2">>,
     \* a JCB test number: the checksum holds, the brand is not taken
     <<"3", "5", "3", "0", "1", "1", "1", "3", "3", "3",
       "3", "0", "0", "0", "0", "0">>,
     \* twelve digits
     <<"4", "1", "1", "1", "1", "1", "1", "1", "1", "1",
       "1", "1">>,
     \* a number holding a letter
     <<"4", "1", "1", "1", "x", "1", "1", "1", "1", "1",
       "1", "1", "1", "1", "1", "1">>,
     \* a bank account number
     <<"1", "2", "3", "4", "5", "6", "7", "8", "9">>,
     \* nothing, and a blank
     <<>>, <<" ">>}

\* the funding sources a client sends; a bank source may come without the
\* optional routingNumber
FundingSources ==
    {[type |-> "card", accountNumber |-> n] : n \in CardNumbers}
    \cup {[type |-> "bank", accountNumber |-> n, routingNumber |-> r] :
             n \in {<<"1", "2", "3", "4", "5", "6", "7", "8", "9">>,
                    <<"1", "2", "3", "4", "5", "6", "7", "8", "a">>},
             r \in {<<"1", "2", "1", "0", "0", "0", "2", "4", "8">>,
                    <<"1", "2", "1", "0", "0", "0", "2", "4">>, <<>>}}
    \cup {[type |-> "bank", accountNumber |-> n] :
             n \in {<<"1", "2", "3", "4", "5", "6", "7", "8", "9">>, <<>>}}

\* /^\d+$/
IsDigits(str) == str # <<>> /\ \A i \in DOMAIN str : str[i] \in Digits

\* value.replace(/[\s-]/g, "")
RECURSIVE StripSeparators(_)
StripSeparators(value) ==
    IF value = <<>> THEN <<>>
    ELSE IF Head(value) \in Whitespace \cup {"-"}
         THEN StripSeparators(Tail(value))
         ELSE <<Head(value)>> \o StripSeparators(Tail(value))

\* the Luhn sum of a digit string: from the right, every second digit is
\* doubled and 9 is subtracted from a double above 9
RECURSIVE LuhnSum(_, _)
LuhnSum(digits, shouldDouble) ==
    IF digits = <<>> THEN 0
    ELSE LET d == DigitValue(digits[Len(digits)])
             v == IF ~shouldDouble THEN d
                  ELSE IF 2 * d > 9 THEN 2 * d - 9 ELSE 2 * d
         IN  v + LuhnSum(SubSeq(digits, 1, Len(digits) - 1), ~shouldDouble)

LuhnCheck(digits) == LuhnSum(digits, FALSE) % 10 = 0

\* the card types the validator's table knows, by leading digits and
\* lengths (the part of the table the modelled numbers reach)
CardTypes ==
    {[type |-> "visa", prefixes |-> {<<"4">>}, lengths |-> {16, 18, 19}],
     [type |-> "mastercard",
      prefixes |-> {<<"5", "1">>, <<"5", "2">>, <<"5", "3">>, <<"5", "4">>,
                    <<"5", "5">>},
      lengths |-> {16}],
     [type |-> "american-express", prefixes |-> {<<"3", "4">>, <<"3", "7">>},
      lengths |-> {15}],
     [type |-> "discover", prefixes |-> {<<"6", "0", "1", "1">>, <<"6", "5">>},
      lengths |-> {16, 19}],
     [type |-> "jcb", prefixes |-> {<<"3", "5">>}, lengths |-> {16, 17, 18, 19}]}

StartsWith(str, prefix) ==
    Len(str) >= Len(prefix) /\ SubSeq(str, 1, Len(prefix)) = prefix

\* cardValidator.number(digits): the card type matched by the leading
\* digits, and isValid when the length is one of the type's and the
\* checksum holds
CardValidatorNumber(digits) ==
    LET matches == {c \in CardTypes :
                      \E prefix \in c.prefixes : StartsWith(digits, prefix)}
    IN  IF Cardinality(matches) # 1
           THEN [isValid |-> FALSE, card |-> "null"]
           ELSE LET c == CHOOSE m \in matches : TRUE
                IN  [isValid |-> Len(digits) \in c.lengths /\ LuhnCheck(digits),
                     card |-> c.type]

\* mapCardType: the four brands the application takes
MapCardType(cardType) ==
    IF cardType \in {"visa", "mastercard", "discover"} THEN cardType
    ELSE IF cardType = "american-express" THEN "amex"
    ELSE "null"

\* validateCardNumber(value): "true" or the error message
ValidateCardNumber(value) ==
    IF Trim(value) = <<>> THEN "Card number is required"
    ELSE IF \E i \in DOMAIN value :
               value[i] \notin Digits \cup Whitespace \cup {"-"}
       THEN "Card number must contain only digits"
    ELSE LET normalized == StripSeparators(value)
             validation == CardValidatorNumber(normalized)
         IN  IF Len(normalized) < 13 \/ Len(normalized) > 19
                THEN "Card number must be between 13 and 19 digits"
             ELSE IF ~validation.isValid THEN "Invalid card number"
             ELSE IF validation.card = "null"
                       \/ MapCardType(validation.card) = "null"
                THEN "Card must be Visa, Mastercard, American Express, or Discover"
             ELSE "true"

\* a schema that checks card sources only
FundingSourceIssuesCardOnly(source) ==
    IF source.type = "card" /\ ValidateCardNumber(source.accountNumber) # "true"
       THEN {[path |-> "accountNumber",
              message |-> ValidateCardNumber(source.accountNumber)]}
       ELSE {}

\* the superRefine of the fundingSource schema: the issues it adds
FundingSourceIssues(source) ==
    IF source.type = "card"
       THEN IF ValidateCardNumber(source.accountNumber) # "true"
               THEN {[path |-> "accountNumber",
                      message |-> ValidateCardNumber(source.accountNumber)]}
               ELSE {}
       ELSE (IF ~IsDigits(source.accountNumber)
                THEN {[path |-> "accountNumber",
                       message |-> "Invalid account number"]}
                ELSE {})
            \cup
            (IF "routingNumber" \notin DOMAIN source
                   \/ source.routingNumber = <<>>
                THEN {[path |-> "routingNumber",
                       message |-> "Routing number is required"]}
             ELSE IF ~(IsDigits(source.routingNumber)
                          /\ Len(source.routingNumber) = 9)
                THEN {[path |-> "routingNumber",
                       message |-> "Routing number must be 9 digits"]}
             ELSE {})

\* the issues of every source a client sends
SourceIssues == [source \in FundingSources |-> FundingSourceIssues(source)]

-----------------------------------------------------------------------------
(* PiiCipher: encryptSSN and decryptSSN (aes-256-gcm, hex-encoded fields)    *)

IV_LENGTH == 16
SALT_LENGTH == 64
\* the length of the tag getAuthTag returns
TAG_LENGTH == 16

\* what crypto.randomBytes returns: for the iv, and for a missing salt
RandomIvs ==
    {[i \in 1..IV_LENGTH |-> 171], [i \in 1..IV_LENGTH |-> 16 + i]}
RandomSalts ==
    {[i \in 1..SALT_LENGTH |-> i], [i \in 1..SALT_LENGTH |-> (7 * i) % 256]}

\* the values passed to encryptSSN: two SSNs, the empty string, undefined
SsnInputs ==
    {[type |-> "string", value |-> "123456789"],
     [type |-> "string", value |-> "987654321"],
     [type |-> "string", value |-> ""],
     [type |-> "undefined", value |-> ""]}

\* one hex digit; the value of a hex digit in either case, -1 for any other
\* character
HexDigit(n) == SubSeq("0123456789abcdef", n + 1, n + 1)

HexValues ==
    [c \in {HexDigit(n) : n \in 0..15} \cup {"A", "B", "C", "D", "E", "F"} |->
        IF \E n \in 0..15 : HexDigit(n) = c
           THEN CHOOSE n \in 0..15 : HexDigit(n) = c
        ELSE CHOOSE n \in 10..15 : SubSeq("ABCDEF", n - 9, n - 9) = c]

HexValue(c) == IF c \in DOMAIN HexValues THEN HexValues[c] ELSE 0 - 1

\* buffer.toString("hex")
RECURSIVE ToHex(_)
ToHex(bytes) ==
    IF bytes = <<>> THEN ""
    ELSE HexDigit(Head(bytes) \div 16) \o HexDigit(Head(bytes) % 16)
             \o ToHex(Tail(bytes))

\* Buffer.from(str, "hex"): decodes pairs of hex digits and stops at the
\* first pair that is not one
RECURSIVE FromHex(_)
FromHex(str) ==
    IF Len(str) < 2 THEN <<>>
    ELSE LET hi == HexValue(SubSeq(str, 1, 1))
             lo == HexValue(SubSeq(str, 2, 2))
         IN  IF hi < 0 \/ lo < 0 THEN <<>>
             ELSE <<16 * hi + lo>> \o FromHex(SubSeq(str, 3, Len(str)))

\* Buffer.from(str, "base64"): the number of bytes decoded (the padding
\* left out); their values do not matter to getSalt
Base64Decode(str) ==
    LET pad == IF Len(str) >= 2 /\ SubSeq(str, Len(str) - 1, Len(str)) = "=="
                  THEN 2
               ELSE IF Len(str) >= 1 /\ SubSeq(str, Len(str), Len(str)) = "="
                  THEN 1
               ELSE 0
    IN  [i \in 1..(((Len(str) - pad) * 3) \div 4) |-> 0]

\* str.split(":")
Split(str) ==
    LET colons == {i \in 1..Len(str) : SubSeq(str, i, i) = ":"}
        \* the position of the k-th colon; the ends of the text for k = 0
        \* and for k past the last colon
        colon(k) == IF k = 0 THEN 0
                    ELSE IF k > Cardinality(colons) THEN Len(str) + 1
                    ELSE CHOOSE c \in colons :
                             Cardinality({d \in colons : d < c}) = k - 1
    IN  [k \in 1..(Cardinality(colons) + 1) |->
            SubSeq(str, colon(k - 1) + 1, colon(k) - 1)]

\* the utf8 bytes of a string of digits, and back
Utf8Bytes(str) ==
    [i \in 1..Len(str) |-> 48 + DigitValue(SubSeq(str, i, i))]

RECURSIVE Utf8String(_)
Utf8String(bytes) ==
    IF bytes = <<>> THEN ""
    ELSE (IF Head(bytes) \in 48..57 THEN HexDigit(Head(bytes) - 48) ELSE "?")
             \o Utf8String(Tail(bytes))

\* the byte sum the cipher model mixes salts, ivs and data with: byte i
\* weighs 2 * (i + j) + 1
RECURSIVE Mix(_, _)
Mix(bytes, j) ==
    IF bytes = <<>> THEN 0
    ELSE ((2 * (Len(bytes) + j) + 1) * bytes[Len(bytes)]
             + Mix(SubSeq(bytes, 1, Len(bytes) - 1), j)) % 256

\* getSalt(): the salt of the configuration, or the bytes randomBytes
\* returned to this call when none is configured
GetSalt(environment, randomSalt) ==
    LET envSalt == environment.ENCRYPTION_SALT IN
    IF envSalt = "" THEN [error |-> "", salt |-> randomSalt]
    ELSE IF Len(envSalt) = SALT_LENGTH * 2
       THEN [error |-> "", salt |-> FromHex(envSalt)]
    ELSE IF Len(Base64Decode(envSalt)) = SALT_LENGTH
       THEN [error |-> "", salt |-> Base64Decode(envSalt)]
    ELSE [error |-> "ENCRYPTION_SALT must be valid hex or base64",
          salt |-> <<>>]

\* getEncryptionKey(): pbkdf2Sync(key, salt, ...) is a value determined by
\* the secret and the salt
GetEncryptionKey(environment, randomSalt) ==
    LET salt == GetSalt(environment, randomSalt) IN
    IF salt.error # "" THEN [error |-> salt.error, key |-> 0]
    ELSE IF environment.ENCRYPTION_KEY = ""
       THEN [error |-> "ENCRYPTION_KEY environment variable is not set",
             key |-> 0]
    ELSE [error |-> "",
          key |-> (Len(environment.ENCRYPTION_KEY) + Mix(salt.salt, 1)) % 256]

\* aes-256-gcm as a stream cipher: byte i of the data is shifted by a pad
\* set by key, iv and position (forward to encrypt, back to decrypt)
GcmCrypt(key, iv, data, forward) ==
    LET Shifted(stream) ==
            [i \in 1..Len(data) |->
                IF forward THEN (data[i] + stream + i) % 256
                ELSE (data[i] + 512 - stream - i) % 256]
    IN  Shifted((key + Mix(iv, 0)) % 256)

\* the authentication tag over key, iv and ciphertext
GcmTag(key, iv, encrypted) ==
    LET Tag(hash, step) == [j \in 1..TAG_LENGTH |-> (hash + j * step) % 256]
    IN  Tag(key + Mix(iv, 0) + Mix(encrypted, 1)
                + 31 * Len(encrypted) + 7 * Len(iv),
            Mix(iv, 1) - Mix(iv, 0) + Mix(encrypted, 1)
                - Mix(encrypted, 0) + 513)

\* the salts randomBytes may return to a call in this configuration (none
\* is drawn when a salt is configured)
SaltDraws(environment) ==
    IF environment.ENCRYPTION_SALT = "" THEN RandomSalts ELSE {<<>>}

\* getEncryptionKey() for each configuration and each draw
EncryptionKeys ==
    [environment \in Envs |->
        [randomSalt \in SaltDraws(environment) |->
            GetEncryptionKey(environment, randomSalt)]]

\* an encryptSSN that encrypts under one and the same iv in every call
EncryptSSNStaticIv(environment, ssn, randomIv, randomSalt) ==
    IF ssn.type # "string" \/ ssn.value = ""
       THEN [ok |-> FALSE, value |-> "SSN must be a non-empty string",
             derived |-> FALSE, ciphered |-> FALSE]
    ELSE LET key == EncryptionKeys[environment][randomSalt] IN
    IF key.error # ""
       THEN [ok |-> FALSE, value |-> key.error,
             derived |-> TRUE, ciphered |-> FALSE]
    ELSE LET Field(iv, encrypted) ==
                 [ok |-> TRUE,
                  value |-> ToHex(iv) \o ":" \o ToHex(encrypted) \o ":"
                                \o ToHex(GcmTag(key.key, iv, encrypted)),
                  derived |-> TRUE, ciphered |-> TRUE]
             staticIv == [i \in 1..IV_LENGTH |-> 0]
         IN  Field(staticIv,
                   GcmCrypt(key.key, staticIv, Utf8Bytes(ssn.value), TRUE))

\* an encryptSSN that derives the key before it looks at its input
EncryptSSNKeyFirst(environment, ssn, randomIv, randomSalt) ==
    LET key == EncryptionKeys[environment][randomSalt] IN
    IF key.error # ""
       THEN [ok |-> FALSE, value |-> key.error,
             derived |-> TRUE, ciphered |-> FALSE]
    ELSE IF ssn.type # "string" \/ ssn.value = ""
       THEN [ok |-> FALSE, value |-> "SSN must be a non-empty string",
             derived |-> TRUE, ciphered |-> FALSE]
    ELSE LET Field(encrypted) ==
                 [ok |-> TRUE,
                  value |-> ToHex(randomIv) \o ":" \o ToHex(encrypted) \o ":"
                                \o ToHex(GcmTag(key.key, randomIv, encrypted)),
                  derived |-> TRUE, ciphered |-> TRUE]
         IN  Field(GcmCrypt(key.key, randomIv, Utf8Bytes(ssn.value), TRUE))

\* encryptSSN(ssn) with the iv (and the salt, if none is configured) that
\* randomBytes returns to this call. derived tells whether the key derivation
\* was entered, ciphered whether a cipher was created.
EncryptSSN(environment, ssn, randomIv, randomSalt) ==
    IF ssn.type # "string" \/ ssn.value = ""
       THEN [ok |-> FALSE, value |-> "SSN must be a non-empty string",
             derived |-> FALSE, ciphered |-> FALSE]
    ELSE LET key == EncryptionKeys[environment][randomSalt] IN
    IF key.error # ""
       THEN [ok |-> FALSE, value |-> key.error,
             derived |-> TRUE, ciphered |-> FALSE]
    ELSE LET Field(encrypted) ==
                 [ok |-> TRUE,
                  value |-> ToHex(randomIv) \o ":" \o ToHex(encrypted) \o ":"
                                \o ToHex(GcmTag(key.key, randomIv, encrypted)),
                  derived |-> TRUE, ciphered |-> TRUE]
         IN  Field(GcmCrypt(key.key, randomIv, Utf8Bytes(ssn.value), TRUE))

\* the tag lengths setAuthTag accepts for gcm when the decipher was created
\* without authTagLength
AuthTagLengths == {4, 8, 12, 13, 14, 15, 16}

\* decryptSSN(encryptedSSN)
DecryptSSN(environment, encryptedSSN, randomSalt) ==
    LET \* decipher.setAuthTag, update and final
        Final(key, iv, tag, encrypted) ==
            IF Len(tag) \notin AuthTagLengths
               THEN [ok |-> FALSE, value |-> "Invalid authentication tag length",
                     derived |-> TRUE, ciphered |-> TRUE]
            ELSE IF SubSeq(GcmTag(key, iv, encrypted), 1, Len(tag)) # tag
               THEN [ok |-> FALSE,
                     value |-> "Unsupported state or unable to authenticate data",
                     derived |-> TRUE, ciphered |-> TRUE]
            ELSE [ok |-> TRUE,
                  value |-> Utf8String(GcmCrypt(key, iv, encrypted, FALSE)),
                  derived |-> TRUE, ciphered |-> TRUE]
        \* crypto.createDecipheriv
        Decipher(key, iv, parts) ==
            IF iv = <<>>
               THEN [ok |-> FALSE, value |-> "Invalid initialization vector",
                     derived |-> TRUE, ciphered |-> TRUE]
            ELSE Final(key, iv, FromHex(parts[3]), FromHex(parts[2]))
        Parts(parts) ==
            IF Len(parts) # 3
               THEN [ok |-> FALSE, value |-> "Invalid encrypted SSN format",
                     derived |-> FALSE, ciphered |-> FALSE]
            ELSE LET key == EncryptionKeys[environment][randomSalt] IN
            IF key.error # ""
               THEN [ok |-> FALSE, value |-> key.error,
                     derived |-> TRUE, ciphered |-> FALSE]
            ELSE Decipher(key.key, FromHex(parts[1]), parts)
    IN  IF encryptedSSN.type # "string" \/ encryptedSSN.value = ""
           THEN [ok |-> FALSE,
                 value |-> "Encrypted SSN must be a non-empty string",
                 derived |-> FALSE, ciphered |-> FALSE]
        ELSE Parts(Split(encryptedSSN.value))

\* a caller encrypts ssn: the result is returned, or the error thrown
EncryptCall(p, ssn, randomIv, randomSalt) ==
    /\ CanStart(p)
    /\ started' = started + 1
    /\ \E result \in {EncryptSSN(env, ssn, randomIv, randomSalt)} :
          /\ Goto(p, IF result.ok THEN "done" ELSE "failed",
                  [op |-> "encrypt", input |-> ssn,
                   value |-> IF result.ok THEN result.value ELSE "",
                   error |-> IF result.ok THEN "" ELSE result.value,
                   derived |-> result.derived, ciphered |-> result.ciphered])
          /\ vault' = IF result.ok
                         THEN Append(vault, [ssn |-> ssn.value, iv |-> randomIv,
                                             field |-> result.value])
                      ELSE vault
    /\ UNCHANGED <<authVars, ledgerVars, clockVars, env>>

\* a caller decrypts encryptedSSN
DecryptCall(p, encryptedSSN, randomSalt) ==
    /\ CanStart(p)
    /\ started' = started + 1
    /\ \E result \in {DecryptSSN(env, encryptedSSN, randomSalt)} :
          Goto(p, IF result.ok THEN "done" ELSE "failed",
               [op |-> "decrypt", input |-> encryptedSSN,
                value |-> IF result.ok THEN result.value ELSE "",
                error |-> IF result.ok THEN "" ELSE result.value,
                derived |-> result.derived, ciphered |-> result.ciphered])
    /\ UNCHANGED <<authVars, ledgerVars, clockVars, cipherVars>>

\* values passed to decryptSSN that no encryptSSN returned: the empty
\* string, undefined, and texts of one, two, three and four parts
MalformedFields ==
    {[type |-> "string", value |-> ""],
     [type |-> "undefined", value |-> ""],
     [type |-> "string", value |-> "invalid-format"],
     [type |-> "string", value |-> "part1:part2"],
     [type |-> "string", value |-> "::"],
     [type |-> "string", value |-> "ab:cd:ef:01"]}

\* a field with one of its three segments emptied
Hollowed(field) ==
    LET parts == Split(field) IN
    {[type |-> "string",
      value |-> (IF k = 1 THEN "" ELSE parts[1]) \o ":"
                    \o (IF k = 2 THEN "" ELSE parts[2]) \o ":"
                    \o (IF k = 3 THEN "" ELSE parts[3])] : k \in 1..3}

\* a field with one character of one segment changed: to another hex digit,
\* to the same hex digit in upper case, or to a character that is no hex
\* digit
Tampered(field) ==
    {[type |-> "string",
      value |-> SubSeq(field, 1, i - 1) \o c \o SubSeq(field, i + 1, Len(field))] :
        <<i, c>> \in
            {ic \in (1..Len(field)) \X {"0", "1", "g", "A", "B", "C", "D", "E", "F"} :
                LET old == SubSeq(field, ic[1], ic[1]) IN
                /\ old # ":"
                /\ \/ ic[2] = (IF old = "0" THEN "1" ELSE "0")
                   \/ ic[2] = "g"
                   \/ HexValue(old) >= 10 /\ HexValue(ic[2]) = HexValue(old)}}

-----------------------------------------------------------------------------
(* accountRouter.fundAccount, called by the authenticated principal userId *)

\* the input schema: amount is a positive number (the funding source is taken
\* to be a valid one)
FundInputOk(amount) == amount > 0

\* a deposit that skips the account checks
FundFindUnchecked(p, userId, accountId, amount) ==
    /\ CanStart(p)
    /\ FundInputOk(amount)
    /\ accountId \in DOMAIN accounts
    /\ started' = started + 1
    /\ Goto(p, "fund_insert",
            [op |-> "fund", accountId |-> accountId, amount |-> amount,
             account |-> accounts[accountId]])
    /\ UNCHANGED <<authVars, ledgerVars, clockVars, cipherVars>>

\* the request arrives and the handler selects the account by id and owner
FundFind(p, userId, accountId, amount) ==
    /\ CanStart(p)
    /\ FundInputOk(amount)
    /\ started' = started + 1
    /\ IF ~OwnedAccount(accounts, userId, accountId)
          THEN Goto(p, "failed", [op |-> "fund", error |-> "NOT_FOUND"])
       ELSE IF accounts[accountId].status # "active"
          THEN Goto(p, "failed", [op |-> "fund", error |-> "BAD_REQUEST"])
       ELSE Goto(p, "fund_insert",
                 [op |-> "fund", accountId |-> accountId, amount |-> amount,
                  account |-> accounts[accountId]])
    /\ UNCHANGED <<authVars, ledgerVars, clockVars, cipherVars>>

\* the request arrives with a funding source: a source with issues fails
\* the input schema (a BAD_REQUEST carrying the issues) and the handler does
\* not run
FundAccount(p, userId, accountId, amount, fundingSource) ==
    IF SourceIssues[fundingSource] # {}
       THEN /\ CanStart(p)
            /\ started' = started + 1
            /\ Goto(p, "failed",
                    [op |-> "fund", error |-> "BAD_REQUEST",
                     issues |-> SourceIssues[fundingSource]])
            /\ UNCHANGED <<authVars, ledgerVars, clockVars, cipherVars>>
       ELSE FundFind(p, userId, accountId, amount)

\* the handler advances without its transaction row reaching the table
FundInsertLost(p) ==
    /\ pc[p] = "fund_insert"
    /\ Goto(p, "fund_readback", loc[p])
    /\ UNCHANGED <<authVars, ledgerVars, clockVars, cipherVars, started>>

\* a deposit that writes its transaction row twice
FundInsertTwice(p) ==
    /\ pc[p] = "fund_insert"
    /\ LET row == [id |-> Len(transactions) + 1, accountId |-> loc[p].accountId,
                   type |-> "deposit", amount |-> loc[p].amount,
                   status |-> "completed", createdAt |-> now]
       IN  transactions' = Append(Append(transactions, row),
                                  [row EXCEPT !.id = Len(transactions) + 2])
    /\ Goto(p, "fund_readback", loc[p])
    /\ UNCHANGED <<authVars, accounts, clockVars, cipherVars, started>>

\* insert the transaction row (deposit, completed)
FundInsert(p) ==
    /\ pc[p] = "fund_insert"
    /\ transactions' = Append(transactions,
           [id |-> Len(transactions) + 1, accountId |-> loc[p].accountId,
            type |-> "deposit", amount |-> loc[p].amount,
            status |-> "completed", createdAt |-> now])
    /\ Goto(p, "fund_readback", loc[p])
    /\ UNCHANGED <<authVars, accounts, clockVars, cipherVars, started>>

\* select the newest transaction row of the account (order by id desc, limit 1)
FundReadback(p) ==
    /\ pc[p] = "fund_readback"
    /\ LET own == TransactionsOf(loc[p].accountId) IN
       Goto(p, "fund_update",
            loc[p] @@ [transaction |->
                IF own = <<>> THEN "undefined" ELSE own[Len(own)]])
    /\ UNCHANGED <<authVars, ledgerVars, clockVars, cipherVars, started>>

\* compute the new balance from the balance read at the start, write it to
\* the account row and return {transaction, newBalance}
FundUpdate(p) ==
    /\ pc[p] = "fund_update"
    /\ LET newBalance == NewBalance(loc[p].account.balance, loc[p].amount) IN
       /\ accounts' = [accounts EXCEPT ![loc[p].accountId].balance = newBalance]
       /\ Goto(p, "done", loc[p] @@ [newBalance |-> newBalance])
    /\ UNCHANGED <<authVars, transactions, clockVars, cipherVars, started>>

\* an awaited storage call after the account check rejects (or the request is
\* aborted there): the handler has no try/catch and no enclosing transaction,
\* so the error propagates and what was written stays written
FundFail(p) ==
    /\ pc[p] \in {"fund_insert", "fund_readback", "fund_update"}
    /\ Throw(p, "INTERNAL_SERVER_ERROR")
    /\ UNCHANGED <<authVars, ledgerVars, clockVars, cipherVars, started>>

\* the account ids a caller names: those stored and one that is not
AccountIds == DOMAIN accounts \cup {NextAccountId(accounts)}

\* a deposit naming an account id that is not stored
FundMissing(p) ==
    \E userId \in Principals, amount \in FundAmounts :
        FundFind(p, userId, NextAccountId(accounts), amount)

FundStep(p) ==
    \/ \E userId \in Principals, accountId \in DOMAIN accounts,
          amount \in FundAmounts : FundFind(p, userId, accountId, amount)
    \/ FundInsert(p)
    \/ FundReadback(p)
    \/ FundUpdate(p)

\* concurrent deposits, any of which may fail at a storage call
NextLedger ==
    \E p \in Procs : FundStep(p) \/ FundFail(p)

SpecLedger == LedgerInit /\ [][NextLedger]_vars

\* deposits one after the other, every storage call succeeding
NextLedgerSeq == FundStep(1)

SpecLedgerSeq == LedgerInit /\ [][NextLedgerSeq]_vars

\* deposits one after the other, from every funding source a client sends
NextFunding ==
    \/ \E userId \in Principals, accountId \in DOMAIN accounts,
          amount \in FundAmounts, fundingSource \in FundingSources :
           FundAccount(1, userId, accountId, amount, fundingSource)
    \/ FundInsert(1)
    \/ FundReadback(1)
    \/ FundUpdate(1)

SpecFunding == LedgerInit /\ [][NextFunding]_vars

-----------------------------------------------------------------------------
(* accountRouter.createAccount, called by the authenticated principal userId *)

AccountTypes == {"checking", "savings"}

\* values of generateAccountNumber(): ten digits, zero-padded
AccountNumbers == {"0000000001", "0000000002", "0000000003"}

\* a createAccount that does not look for an account of the same type
CreateCheckNoLookup(p, userId, accountType) ==
    /\ CanStart(p)
    /\ started' = started + 1
    /\ Goto(p, "create_number",
            [op |-> "create", userId |-> userId, accountType |-> accountType])
    /\ UNCHANGED <<authVars, ledgerVars, clockVars, cipherVars>>

\* the request arrives and the handler selects an account of the user with
\* the requested type; an existing one is a CONFLICT
CreateCheck(p, userId, accountType) ==
    /\ CanStart(p)
    /\ started' = started + 1
    /\ IF AccountsOfType(accounts, userId, accountType) # {}
          THEN Goto(p, "failed", [op |-> "create", error |-> "CONFLICT"])
          ELSE Goto(p, "create_number",
                    [op |-> "create", userId |-> userId,
                     accountType |-> accountType])
    /\ UNCHANGED <<authVars, ledgerVars, clockVars, cipherVars>>

\* one round of the loop: generate a number and select by it; a number in
\* use leaves the handler in the loop
CreateNumber(p, accountNumber) ==
    /\ pc[p] = "create_number"
    /\ IF AccountsByNumber(accounts, accountNumber) # {}
          THEN Goto(p, "create_number", loc[p])
          ELSE Goto(p, "create_insert",
                    loc[p] @@ [accountNumber |-> accountNumber])
    /\ UNCHANGED <<authVars, ledgerVars, clockVars, cipherVars, started>>

\* an insert that stores an opening balance of $100 and status pending
CreateInsertFunded(p) ==
    /\ pc[p] = "create_insert"
    /\ accounts' = accounts @@
           (NextAccountId(accounts) :>
               [userId |-> loc[p].userId,
                accountNumber |-> loc[p].accountNumber,
                accountType |-> loc[p].accountType,
                balance |-> 100000, status |-> "pending"])
    /\ Goto(p, "create_fetch", loc[p])
    /\ UNCHANGED <<authVars, transactions, clockVars, cipherVars, started>>

\* an insert into a table whose account numbers are not constrained
CreateInsertUnconstrained(p) ==
    /\ pc[p] = "create_insert"
    /\ accounts' = accounts @@
           (NextAccountId(accounts) :>
               [userId |-> loc[p].userId,
                accountNumber |-> loc[p].accountNumber,
                accountType |-> loc[p].accountType,
                balance |-> 0, status |-> "active"])
    /\ Goto(p, "create_fetch", loc[p])
    /\ UNCHANGED <<authVars, transactions, clockVars, cipherVars, started>>

\* insert the account row with balance 0 and status active
\* (accounts.accountNumber is a unique column)
CreateInsert(p) ==
    /\ pc[p] = "create_insert"
    /\ IF AccountsByNumber(accounts, loc[p].accountNumber) # {}
          THEN /\ Throw(p, "SQLITE_CONSTRAINT")
               /\ UNCHANGED accounts
          ELSE /\ accounts' = accounts @@
                      (NextAccountId(accounts) :>
                          [userId |-> loc[p].userId,
                           accountNumber |-> loc[p].accountNumber,
                           accountType |-> loc[p].accountType,
                           balance |-> 0, status |-> "active"])
               /\ Goto(p, "create_fetch", loc[p])
    /\ UNCHANGED <<authVars, transactions, clockVars, cipherVars, started>>

\* fetch the created account by its number and return it
CreateFetch(p) ==
    /\ pc[p] = "create_fetch"
    /\ LET found == AccountsByNumber(accounts, loc[p].accountNumber) IN
       IF found = {}
          THEN Goto(p, "create_cleanup", loc[p])
          ELSE LET id == CHOOSE a \in found : TRUE IN
               Goto(p, "done",
                    loc[p] @@ [account |-> [id |-> id] @@ accounts[id]])
    /\ UNCHANGED <<authVars, ledgerVars, clockVars, cipherVars, started>>

\* a fetch that returns nothing answered with an invented account
CreateFetchMissFabricated(p) ==
    /\ pc[p] = "create_fetch"
    /\ Goto(p, "done",
            loc[p] @@ [account |->
                [id |-> 0, userId |-> loc[p].userId,
                 accountNumber |-> loc[p].accountNumber,
                 accountType |-> loc[p].accountType,
                 balance |-> 100000, status |-> "pending"]])
    /\ UNCHANGED <<authVars, ledgerVars, clockVars, cipherVars, started>>

\* the fetch returns nothing although the insert succeeded (the storage
\* fault a test simulates): the handler goes on to the compensating delete
CreateFetchMiss(p) ==
    /\ pc[p] = "create_fetch"
    /\ Goto(p, "create_cleanup", loc[p])
    /\ UNCHANGED <<authVars, ledgerVars, clockVars, cipherVars, started>>

\* delete the orphaned row by its number and throw INTERNAL_SERVER_ERROR
CreateCleanup(p) ==
    /\ pc[p] = "create_cleanup"
    /\ accounts' =
           [a \in DOMAIN accounts
                   \ AccountsByNumber(accounts, loc[p].accountNumber)
               |-> accounts[a]]
    /\ Throw(p, "INTERNAL_SERVER_ERROR")
    /\ UNCHANGED <<authVars, transactions, clockVars, cipherVars, started>>

CreateStep(p) ==
    \/ \E userId \in Principals, accountType \in AccountTypes :
           CreateCheck(p, userId, accountType)
    \/ \E accountNumber \in AccountNumbers : CreateNumber(p, accountNumber)
    \/ CreateInsert(p)
    \/ CreateFetch(p)
    \/ CreateCleanup(p)

-----------------------------------------------------------------------------
(* accountRouter.getTransactions, called by the authenticated principal      *)

Pages == {1, 2}
Limits == {1, 10}

\* the request arrives and the handler selects the account by id and owner
GetTransactionsFind(p, userId, accountId, page, limit) ==
    /\ CanStart(p)
    /\ started' = started + 1
    /\ IF ~OwnedAccount(accounts, userId, accountId)
          THEN Goto(p, "failed", [op |-> "transactions", error |-> "NOT_FOUND"])
          ELSE Goto(p, "transactions_count",
                    [op |-> "transactions", userId |-> userId,
                     accountId |-> accountId, page |-> page, limit |-> limit,
                     account |-> accounts[accountId]])
    /\ UNCHANGED <<authVars, ledgerVars, clockVars, cipherVars>>

\* count the account's transaction rows
GetTransactionsCount(p) ==
    /\ pc[p] = "transactions_count"
    /\ Goto(p, "transactions_page",
            loc[p] @@ [totalCount |-> Len(TransactionsOf(loc[p].accountId))])
    /\ UNCHANGED <<authVars, ledgerVars, clockVars, cipherVars, started>>

\* the orders in which the store may return rows sorted by createdAt
\* descending: rows with equal createdAt come in any order
NewestFirst(rows) ==
    LET n == Len(rows)
        orders == {f \in [1..n -> 1..n] :
                      /\ \A i, j \in 1..n : f[i] = f[j] => i = j
                      /\ \A i, j \in 1..n :
                             i < j => rows[f[i]].createdAt >= rows[f[j]].createdAt}
    IN  {[i \in 1..n |-> rows[f[i]]] : f \in orders}

\* limit and offset applied to the ordered rows
PageOf(ordered, limit, offset) ==
    SubSeq(ordered, offset + 1,
           IF offset + limit < Len(ordered) THEN offset + limit
           ELSE Len(ordered))

\* select the page (order by createdAt desc, limit, offset) and return it
\* with the pagination record
GetTransactionsPage(p) ==
    /\ pc[p] = "transactions_page"
    /\ \E ordered \in NewestFirst(TransactionsOf(loc[p].accountId)) :
          LET offset == (loc[p].page - 1) * loc[p].limit
              totalPages == TotalPages(loc[p].totalCount, loc[p].limit)
              accountTransactions == PageOf(ordered, loc[p].limit, offset)
          IN  Goto(p, "done",
                   loc[p] @@
                   [transactions |->
                        [i \in DOMAIN accountTransactions |->
                            accountTransactions[i] @@
                                [accountType |-> loc[p].account.accountType]],
                    pagination |->
                        [page |-> loc[p].page, limit |-> loc[p].limit,
                         totalCount |-> loc[p].totalCount,
                         totalPages |-> totalPages,
                         hasNextPage |-> loc[p].page < totalPages,
                         hasPreviousPage |-> loc[p].page > 1]])
    /\ UNCHANGED <<authVars, ledgerVars, clockVars, cipherVars, started>>

GetTransactionsStep(p) ==
    \/ \E userId \in Principals, accountId \in AccountIds,
          page \in Pages, limit \in Limits :
           GetTransactionsFind(p, userId, accountId, page, limit)
    \/ GetTransactionsCount(p)
    \/ GetTransactionsPage(p)

-----------------------------------------------------------------------------
(* Specification of the accounts of two principals *)

\* the store holding one account that is not active: a savings account of
\* principal 2 with status pending
AccountsInit ==
    /\ now = 0
    /\ ticks = 0
    /\ users = {}
    /\ sessions = {}
    /\ issued = {}
    /\ seeded = 0
    /\ accounts = (1 :> [userId |-> 2, accountNumber |-> "0000000001",
                         accountType |-> "savings", balance |-> 0,
                         status |-> "pending"])
    /\ transactions = <<>>
    /\ pc = [p \in Procs |-> "idle"]
    /\ loc = [p \in Procs |-> NoLoc]
    /\ started = 0
    /\ env = TestEnv
    /\ vault = <<>>

\* account openings, deposits and history queries one after the other; the
\* fetch of a created account may return nothing
NextAccountsSeq ==
    \/ CreateStep(1)
    \/ CreateFetchMiss(1)
    \/ FundStep(1)
    \/ FundMissing(1)
    \/ GetTransactionsStep(1)

SpecAccountsSeq == AccountsInit /\ [][NextAccountsSeq]_vars

\* createAccount requests of several callers, interleaved at every storage
\* call
NextAccounts ==
    \E p \in Procs : CreateStep(p) \/ CreateFetchMiss(p)

SpecAccounts == AccountsInit /\ [][NextAccounts]_vars

-----------------------------------------------------------------------------
(* Specification of the transaction history of one account *)

\* the store after principal 1 has opened a checking account and made one
\* deposit of $37.426 into it
HistoryInit ==
    /\ now = 0
    /\ ticks = 0
    /\ users = {}
    /\ sessions = {}
    /\ issued = {}
    /\ seeded = 0
    /\ accounts = <<[userId |-> 1, accountNumber |-> "0000000001",
                     accountType |-> "checking",
                     balance |-> NewBalance(0, 37426), status |-> "active"]>>
    /\ transactions = <<[id |-> 1, accountId |-> 1, type |-> "deposit",
                         amount |-> 37426, status |-> "completed",
                         createdAt |-> 0]>>
    /\ pc = [p \in Procs |-> "idle"]
    /\ loc = [p \in Procs |-> NoLoc]
    /\ started = 0
    /\ env = TestEnv
    /\ vault = <<>>

\* deposits of slot 1 one after the other, history queries of every slot,
\* and the clock
NextHistory ==
    \/ FundStep(1)
    \/ \E p \in Procs : GetTransactionsStep(p)
    \/ Tick(1)

SpecHistory == HistoryInit /\ [][NextHistory]_vars

\* deposits and history queries one after the other, and the clock
NextHistorySeq ==
    \/ FundStep(1)
    \/ GetTransactionsStep(1)
    \/ Tick(1)

SpecHistorySeq == HistoryInit /\ [][NextHistorySeq]_vars

-----------------------------------------------------------------------------
(* Specifications of the field cipher *)

\* the process starts in one of the key configurations
CipherInit ==
    /\ now = 0
    /\ ticks = 0
    /\ users = {}
    /\ sessions = {}
    /\ issued = {}
    /\ seeded = 0
    /\ accounts = <<>>
    /\ transactions = <<>>
    /\ pc = [p \in Procs |-> "idle"]
    /\ loc = [p \in Procs |-> NoLoc]
    /\ started = 0
    /\ env \in Envs
    /\ vault = <<>>

\* values are encrypted, and fields that were returned, fields with an
\* emptied segment and malformed values are decrypted, one call at a time
NextCipher ==
    \/ \E ssn \in SsnInputs, randomIv \in RandomIvs, randomSalt \in SaltDraws(env) :
          EncryptCall(1, ssn, randomIv, randomSalt)
    \/ \E i \in 1..Len(vault), randomSalt \in SaltDraws(env) :
          DecryptCall(1, [type |-> "string", value |-> vault[i].field], randomSalt)
    \/ \E i \in 1..Len(vault), randomSalt \in SaltDraws(env) :
          \E encryptedSSN \in Hollowed(vault[i].field) :
             DecryptCall(1, encryptedSSN, randomSalt)
    \/ \E encryptedSSN \in MalformedFields, randomSalt \in SaltDraws(env) :
          DecryptCall(1, encryptedSSN, randomSalt)

SpecCipher == CipherInit /\ [][NextCipher]_vars

\* one value is encrypted, then a copy of the field with one character
\* changed is decrypted
NextTamper ==
    \/ /\ vault = <<>>
       /\ \E ssn \in SsnInputs, randomIv \in RandomIvs, randomSalt \in SaltDraws(env) :
             EncryptCall(1, ssn, randomIv, randomSalt)
    \/ /\ pc[1] = "done" /\ loc[1].op = "encrypt"
       /\ \E i \in 1..Len(vault), randomSalt \in SaltDraws(env) :
             \E encryptedSSN \in Tampered(vault[i].field) :
                DecryptCall(1, encryptedSSN, randomSalt)

SpecTamper == CipherInit /\ [][NextTamper]_vars

-----------------------------------------------------------------------------
(* The whole system *)

Next ==
    \/ \E p \in Procs : AuthStep(p) \/ LogoutStep(p) \/ FundStep(p) \/ FundFail(p)
    \/ \E p \in Procs : CreateStep(p) \/ CreateFetchMiss(p)
                            \/ GetTransactionsStep(p)
    \/ \E userId \in Principals : SeedSession(userId)
    \/ \E d \in TickSteps : Tick(d)

Spec == Init /\ [][Next]_vars

-----------------------------------------------------------------------------
(* Properties *)

AllFinished == \A p \in Procs : Finished(p)

DoneWith(p, op) == pc[p] = "done" /\ loc[p].op = op

\* this step is taken by slot p
Acts(p) == <<pc[p], loc[p]>> # <<pc'[p], loc'[p]>>

\* this step is the arrival of a request op at slot p
Starts(p, op) == Acts(p) /\ started' # started /\ loc'[p].op = op

\* this step is the return of a request op at slot p
Completes(p, op) == Acts(p) /\ pc'[p] = "done" /\ loc'[p].op = op

\* C1: a login (or a signup) that runs without interleaving leaves exactly one
\* session row for its principal, whatever number of rows existed before, and
\* that row carries the token the call returns.
C1_LoginLeavesOneSession ==
    [][\A p \in Procs :
          (pc[p] \in {"login_insert", "signup_session"} /\ pc'[p] = "done")
          => LET rows == SessionsOfUser(sessions', loc'[p].userId) IN
             /\ Cardinality(rows) = 1
             /\ \A s \in rows : s.token = loc'[p].token]_vars

\* a login has returned after deleting two rows of its principal
C1_Witness ==
    \E p \in Procs :
        /\ DoneWith(p, "login")
        /\ loc[p].deleted = 2
        /\ Cardinality(SessionsOfUser(sessions, loc[p].userId)) = 1

\* C2: once all concurrent logins of a principal have completed, at most one
\* session row exists for that principal.
C2_AtMostOneSessionAfterLogins ==
    \A p, q \in Procs :
        (/\ p # q
         /\ DoneWith(p, "login")
         /\ DoneWith(q, "login")
         /\ loc[p].userId = loc[q].userId)
        => Cardinality(SessionsOfUser(sessions, loc[p].userId)) <= 1

\* C3: after N concurrent deposits of the same amount A on a fresh account
\* have all returned, the balance is N*A to the cent and the account has N
\* transaction rows.
C3_ConcurrentDepositsSum ==
    (/\ started = NumProcs
     /\ \A p \in Procs : DoneWith(p, "fund")
     /\ \A p, q \in Procs : /\ loc[p].accountId = loc[q].accountId
                            /\ loc[p].amount = loc[q].amount)
    => \A p \in Procs :
          /\ accounts[loc[p].accountId].balance =
                 CentsToDollars(NumProcs * RoundCents(loc[p].amount))
          /\ Len(TransactionsOf(loc[p].accountId)) = NumProcs

\* C4: after any sequence of non-overlapping successful deposits the stored
\* balance is exactly the integer-cent sum of round(amount * 100) over the
\* account's completed deposits, and a call's newBalance is the balance it
\* persisted: the balance it read plus the amount, in cents.
C4_BalanceIsCentSum ==
    /\ AllFinished =>
          \A a \in DOMAIN accounts :
              accounts[a].balance =
                  CentsToDollars(SumDepositCents(transactions, a))
    /\ \A p \in Procs :
          DoneWith(p, "fund") =>
              /\ loc[p].newBalance = accounts[loc[p].accountId].balance
              /\ RoundCents(loc[p].newBalance) =
                     RoundCents(loc[p].account.balance)
                         + RoundCents(loc[p].amount)

\* a third deposit on an account has returned, one of them not a whole number
\* of cents
C4_Witness ==
    \E p \in Procs :
        /\ DoneWith(p, "fund")
        /\ Len(TransactionsOf(loc[p].accountId)) = 3
        /\ \E i \in DOMAIN transactions :
               /\ transactions[i].accountId = loc[p].accountId
               /\ CentsToDollars(RoundCents(transactions[i].amount))
                      # transactions[i].amount

\* C5: a deposit succeeds only for an amount within [10.00, 10000.00], and no
\* transaction row is written for an amount outside it.
C5_FundingLimits ==
    /\ \A p \in Procs :
          DoneWith(p, "fund") =>
              (MIN_FUNDING <= loc[p].amount /\ loc[p].amount <= MAX_FUNDING)
    /\ \A i \in DOMAIN transactions :
          /\ MIN_FUNDING <= transactions[i].amount
          /\ transactions[i].amount <= MAX_FUNDING

\* C6: when no deposit is in flight, every completed deposit row is reflected
\* in the balance: a failed or aborted deposit leaves either both the row and
\* the balance update, or neither.
C6_NoPartialState ==
    AllFinished =>
        \A a \in DOMAIN accounts :
            accounts[a].balance =
                CentsToDollars(SumDepositCents(transactions, a))

\* C7: the transaction row is inserted before the balance is written, so in
\* every state the balance in cents is at most the sum of the account's
\* completed deposit rows, and a deposit about to write (or having written)
\* the balance has a row in the log.
C7_LogCoversBalance ==
    /\ \A a \in DOMAIN accounts :
          RoundCents(accounts[a].balance) <= SumDepositCents(transactions, a)
    /\ \A p \in Procs :
          (pc[p] \in {"fund_update", "done"} /\ loc[p].op = "fund") =>
              \E i \in DOMAIN transactions :
                  /\ IsCompletedDeposit(transactions[i], loc[p].accountId)
                  /\ transactions[i].amount = loc[p].amount

\* a deposit has failed after its row was inserted: the log holds more than
\* the balance
C7_Witness ==
    \E p \in Procs :
        /\ pc[p] = "failed"
        /\ loc[p].op = "fund"
        /\ loc[p].error = "INTERNAL_SERVER_ERROR"
        /\ \E a \in DOMAIN accounts :
               RoundCents(accounts[a].balance)
                   < SumDepositCents(transactions, a)

\* C8: validate of a token the token layer accepts and that has a session
\* row: if expiresAt <= now + 5 minutes the row is deleted and the result is
\* Unauthenticated, otherwise the principal of the row is returned.
C8_BufferExpiry ==
    \A p \in Procs :
        (DoneWith(p, "validate") /\ loc[p].found # {}) =>
            \A s \in loc[p].found :
                IF s.expiresAt <= loc[p].at + SESSION_BUFFER
                   THEN /\ loc[p].result = Unauthenticated
                        /\ SessionsByToken(sessions, loc[p].token) = {}
                   ELSE /\ loc[p].result = s.userId
                        /\ s \in sessions

\* a validate has rejected a session that expires exactly 5 minutes ahead
C8_Witness ==
    \E p \in Procs :
        /\ DoneWith(p, "validate")
        /\ \E s \in loc[p].found :
               s.expiresAt = loc[p].at + SESSION_BUFFER
        /\ loc[p].result = Unauthenticated

Revoked(t) == t \in issued /\ SessionsByToken(sessions, t) = {}

\* C11: revocation is permanent: once the session row of a token has been
\* deleted, validate of that token returns Unauthenticated in every later
\* state, also while the token still passes the signature and embedded-expiry
\* checks.  Stated step by step: from a state where t is revoked, validate(t)
\* in the next state is Unauthenticated.
C11_RevocationPermanent ==
    [][\A t \in issued :
          (Revoked(t) /\ JwtVerify(t, now'))
          => ValidateOutcome(sessions', t, now').result = Unauthenticated]_vars

\* C12: logout returns "Logged out successfully" only if a row for the
\* presented token was found, was deleted, and the re-read after the delete
\* found none; when it returns that result no session row has the token.
C12_LogoutVerified ==
    [][\A p \in Procs :
          (Completes(p, "logout") /\ loc'[p].message = LogoutSucceeded)
          => /\ loc'[p].success
             /\ pc[p] = "logout_verify"
             /\ loc'[p].found
             /\ loc'[p].writes = 1
             /\ loc'[p].reads = 2
             /\ SessionsByToken(sessions', loc'[p].token) = {}]_vars

\* a logout has returned "Logged out successfully" and the row is gone
C12_Witness ==
    \E p \in Procs :
        /\ DoneWith(p, "logout")
        /\ loc[p].message = LogoutSucceeded
        /\ loc[p].token \in issued
        /\ SessionsByToken(sessions, loc[p].token) = {}

C14_NoPrincipalNoAccess ==
    [][\A p \in Procs :
          (Starts(p, "logout") /\ loc'[p].user = Unauthenticated)
          => /\ pc'[p] = "done"
             /\ loc'[p].success
             /\ loc'[p].message = LogoutNoSession
             /\ loc'[p].reads = 0
             /\ loc'[p].writes = 0
             /\ sessions' = sessions]_vars

\* a logout with neither principal nor token has returned while a session
\* row is stored
C14_Witness ==
    \E p \in Procs :
        /\ DoneWith(p, "logout")
        /\ loc[p].user = Unauthenticated
        /\ loc[p].token = NoToken
        /\ loc[p].message = LogoutNoSession
        /\ sessions # {}

\* the address with every blank removed and every letter lower-cased
CanonicalEmail(email) ==
    LET kept == SelectSeq(email, LAMBDA c : c \notin Whitespace)
    IN  [i \in DOMAIN kept |-> ToLowerCase(kept[i])]

C19_LoginFailureUniform ==
    [][/\ \A unknown, known \in Mailboxes, pw1, pw2 \in Passwords :
             (/\ UserByEmail(unknown) = {}
              /\ \E u \in UserByEmail(known) : ~BcryptCompare(pw2, u.password))
             => /\ LoginError(unknown, pw1) # NoError
                /\ LoginError(unknown, pw1) = LoginError(known, pw2)
       /\ \A p \in Procs :
             (Starts(p, "login") /\ pc'[p] = "failed")
             => \A email \in Mailboxes, password \in Passwords :
                   LoginError(email, password) # NoError
                   => /\ loc'[p].error = LoginError(email, password).code
                      /\ loc'[p].message =
                             LoginError(email, password).message]_vars

\* two logins have failed while one mailbox is known and another is not
C19_Witness ==
    /\ \E email \in Mailboxes : UserByEmail(email) = {}
    /\ \E email \in Mailboxes : UserByEmail(email) # {}
    /\ \E p, q \in Procs :
          /\ p # q
          /\ pc[p] = "failed" /\ loc[p].op = "login"
          /\ pc[q] = "failed" /\ loc[q].op = "login"
          /\ loc[p].error = loc[q].error
          /\ loc[p].message = loc[q].message

C17_OneAccountPerType ==
    [][/\ \A a, b \in DOMAIN accounts' :
             (/\ accounts'[a].userId = accounts'[b].userId
              /\ accounts'[a].accountType = accounts'[b].accountType)
             => a = b
       /\ \A p \in Procs, userId \in Principals, accountType \in AccountTypes :
             (/\ Starts(p, "create")
              /\ CreateCheck(p, userId, accountType)
              /\ AccountsOfType(accounts, userId, accountType) # {})
             => /\ pc'[p] = "failed"
                /\ loc'[p].error = "CONFLICT"
                /\ accounts' = accounts]_vars

\* a createAccount has failed with CONFLICT for a principal who holds two
\* accounts, one of each type
C17_Witness ==
    \E p \in Procs :
        /\ pc[p] = "failed"
        /\ loc[p].op = "create"
        /\ loc[p].error = "CONFLICT"
        /\ \E userId \in Principals :
               \A accountType \in AccountTypes :
                   Cardinality(AccountsOfType(accounts, userId, accountType)) = 1

\* C20: fundAccount and getTransactions check the account first: an account
\* id that is not stored or not owned by the caller fails with NOT_FOUND, and
\* fundAccount on an owned account that is not active fails with BAD_REQUEST;
\* such a failure appends no transaction row and changes no balance, and the
\* transactions a query returns are those of an account the caller owns.
C20_AccountCheckedFirst ==
    [][\A p \in Procs, userId \in Principals, accountId \in AccountIds :
          /\ \A amount \in FundAmounts :
                (Starts(p, "fund") /\ FundFind(p, userId, accountId, amount))
                => /\ ~OwnedAccount(accounts, userId, accountId)
                      => /\ pc'[p] = "failed"
                         /\ loc'[p].error = "NOT_FOUND"
                   /\ (/\ OwnedAccount(accounts, userId, accountId)
                       /\ accounts[accountId].status # "active")
                      => /\ pc'[p] = "failed"
                         /\ loc'[p].error = "BAD_REQUEST"
                   /\ pc'[p] = "failed"
                      => (transactions' = transactions /\ accounts' = accounts)
          /\ \A page \in Pages, limit \in Limits :
                (/\ Starts(p, "transactions")
                 /\ GetTransactionsFind(p, userId, accountId, page, limit))
                => /\ ~OwnedAccount(accounts, userId, accountId)
                      => /\ pc'[p] = "failed"
                         /\ loc'[p].error = "NOT_FOUND"
                         /\ transactions' = transactions
                         /\ accounts' = accounts
                   /\ pc'[p] # "failed"
                      => OwnedAccount(accounts, userId, loc'[p].accountId)
          /\ Completes(p, "transactions")
                => \A i \in DOMAIN loc'[p].transactions :
                      OwnedAccount(accounts, loc'[p].userId,
                                   loc'[p].transactions[i].accountId)]_vars

\* a deposit into an account that is not active has failed with BAD_REQUEST
\* while another account holds a deposit, and nothing was written for it
C20_Witness ==
    \E p \in Procs :
        /\ pc[p] = "failed"
        /\ loc[p].op = "fund"
        /\ loc[p].error = "BAD_REQUEST"
        /\ transactions # <<>>
        /\ \A a \in DOMAIN accounts :
               accounts[a].status # "active" => accounts[a].balance = 0

-----------------------------------------------------------------------------
(* Returned transaction, pagination and history *)

\* C30: the transaction a fundAccount call returns is the row this call
\* inserted: its amount is the amount of the call, whatever other deposits
\* on the account run between the call's insert and its read-back
C30_ReturnsOwnTransaction ==
    \A p \in Procs :
        DoneWith(p, "fund") => loc[p].transaction.amount = loc[p].amount

\* the ids of the rows of a returned page
PageIds(rows) == {rows[i].id : i \in DOMAIN rows}

\* C22: getTransactions returns totalCount = the number of stored
\* transactions of the account when it counts them, totalPages =
\* ceil(totalCount / limit), hasNextPage = (page < totalPages),
\* hasPreviousPage = (page > 1), at most limit rows, newest first, and none of
\* its steps changes stored state
C22_PaginationFields ==
    [][\A p \in Procs :
          /\ (Acts(p) /\ loc'[p].op = "transactions")
                => UNCHANGED <<authVars, ledgerVars>>
          /\ (Acts(p) /\ pc'[p] = "transactions_page")
                => loc'[p].totalCount = Len(TransactionsOf(loc'[p].accountId))
          /\ Completes(p, "transactions")
                => LET r == loc'[p]
                       pg == r.pagination
                   IN  /\ pg.totalCount = r.totalCount
                       /\ pg.totalPages * r.limit >= pg.totalCount
                       /\ (pg.totalPages - 1) * r.limit < pg.totalCount
                       /\ pg.hasNextPage = (r.page < pg.totalPages)
                       /\ pg.hasPreviousPage = (r.page > 1)
                       /\ Len(r.transactions) <= r.limit
                       /\ \A i, j \in DOMAIN r.transactions :
                              i < j => r.transactions[i].createdAt
                                           >= r.transactions[j].createdAt
                       /\ \A i \in DOMAIN r.transactions :
                              r.transactions[i].accountId = r.accountId
      ]_vars

\* a query has returned two rows created at different times, of a history
\* whose length is no multiple of the limit
C22_Witness ==
    \E p \in Procs :
        /\ DoneWith(p, "transactions")
        /\ loc[p].limit > 1
        /\ Len(loc[p].transactions) = 2
        /\ loc[p].transactions[1].createdAt > loc[p].transactions[2].createdAt
        /\ loc[p].pagination.totalPages = 1

\* two queries of one account with the same limit have returned, and no row
\* was written since either counted
SameHistoryRead(p, q) ==
    /\ DoneWith(p, "transactions")
    /\ DoneWith(q, "transactions")
    /\ loc[p].accountId = loc[q].accountId
    /\ loc[p].limit = loc[q].limit
    /\ loc[p].totalCount = Len(TransactionsOf(loc[p].accountId))
    /\ loc[q].totalCount = Len(TransactionsOf(loc[q].accountId))

-----------------------------------------------------------------------------
(* Funding source validation *)

\* the digits of a card number as written, separators left out
CardDigits(str) == SelectSeq(str, LAMBDA c : c \in Digits)

\* the checksum of a digit string, position by position from the right
ChecksumHolds(digits) ==
    LET n == Len(digits)
        term(k) == LET d == DigitValue(digits[n + 1 - k])
                   IN  IF k % 2 = 1 THEN d
                       ELSE ((2 * d) \div 10) + ((2 * d) % 10)
        RECURSIVE total(_)
        total(k) == IF k = 0 THEN 0 ELSE term(k) + total(k - 1)
    IN  total(n) % 10 = 0

\* a card of one of the four brands, by its leading digits and length
KnownBrand(digits) ==
    \/ digits[1] = "4" /\ Len(digits) \in {16, 18, 19}
    \/ digits[1] = "5" /\ digits[2] \in {"1", "2", "3", "4", "5"}
          /\ Len(digits) = 16
    \/ digits[1] = "3" /\ digits[2] \in {"4", "7"} /\ Len(digits) = 15
    \/ digits[1] = "6" /\ (digits[2] = "5" \/ SubSeq(digits, 2, 4) = <<"0", "1", "1">>)
          /\ Len(digits) \in {16, 19}

\* the sources the schema is to let through
AcceptableSource(source) ==
    IF source.type = "card"
       THEN LET digits == CardDigits(source.accountNumber) IN
            /\ \A i \in DOMAIN source.accountNumber :
                   source.accountNumber[i] \in Digits \cup Whitespace \cup {"-"}
            /\ Len(digits) >= 13 /\ Len(digits) <= 19
            /\ ChecksumHolds(digits)
            /\ KnownBrand(digits)
       ELSE /\ source.accountNumber # <<>>
            /\ \A i \in DOMAIN source.accountNumber :
                   source.accountNumber[i] \in Digits
            /\ "routingNumber" \in DOMAIN source
            /\ Len(source.routingNumber) = 9
            /\ \A i \in DOMAIN source.routingNumber :
                   source.routingNumber[i] \in Digits

\* the fields a rejection of the source must name
FieldsAtFault(source) ==
    IF source.type = "card" THEN {"accountNumber"}
    ELSE (IF IsDigits(source.accountNumber) THEN {} ELSE {"accountNumber"})
         \cup (IF "routingNumber" \in DOMAIN source
                     /\ IsDigits(source.routingNumber)
                     /\ Len(source.routingNumber) = 9
                  THEN {} ELSE {"routingNumber"})

\* the sources sent that the schema is to let through, and the fields at
\* fault of each source sent
Acceptable == {source \in FundingSources : AcceptableSource(source)}
AtFault == [source \in FundingSources |-> FieldsAtFault(source)]

\* C21: fundAccount rejects a funding source that is neither a card passing
\* length, checksum and brand validation nor a bank source with a digit-only
\* account number and a 9-digit routing number: the request fails at once
\* with an error naming the fields at fault and writes nothing; a source of
\* one of the two shapes is not rejected for its source
C21_FundingSourceValidated ==
    [][\A p \in Procs :
        Starts(p, "fund") =>
        \A userId \in Principals, accountId \in DOMAIN accounts,
           amount \in FundAmounts, fundingSource \in FundingSources :
          FundAccount(p, userId, accountId, amount, fundingSource)
            => IF fundingSource \in Acceptable
                  THEN "issues" \notin DOMAIN loc'[p]
                  ELSE /\ pc'[p] = "failed"
                       /\ "issues" \in DOMAIN loc'[p]
                       /\ {i.path : i \in loc'[p].issues}
                             = AtFault[fundingSource]
                       /\ \A i \in loc'[p].issues : i.message # ""
                       /\ UNCHANGED <<authVars, ledgerVars>>
      ]_vars

\* a bank source without a valid routing number was rejected after a
\* deposit from a valid source had been written
C21_Witness ==
    \E p \in Procs :
        /\ pc[p] = "failed"
        /\ loc[p].op = "fund"
        /\ "issues" \in DOMAIN loc[p]
        /\ \E i \in loc[p].issues : i.path = "routingNumber"
        /\ transactions # <<>>

-----------------------------------------------------------------------------
(* Credentials *)

\* C29: after signup(email, pw), login(email, pw) succeeds and
\* login(email, pw2) fails with invalid credentials for every pw2 other than
\* pw; the stored password is a hash, never pw, and no signup or login
\* response carries a password
C29_CredentialRoundTrip ==
    [][/\ \A p \in Procs, email \in Emails, password \in LoginPasswords :
            (Starts(p, "login") /\ LoginFind(p, email, password))
              => \A u \in UserByEmail(InputEmail[email]),
                    pw \in SignupPasswords :
                    u.password = BcryptHash(pw)
                      => IF password = pw
                            THEN pc'[p] = "login_delete"
                            ELSE /\ pc'[p] = "failed"
                                 /\ loc'[p].error = "UNAUTHORIZED"
                                 /\ loc'[p].message = "Invalid credentials"
       /\ \A u \in users' : Len(u.password) = 2 /\ u.password[1] = "$2a$10$"
       /\ \A p \in Procs :
            (Completes(p, "signup") \/ Completes(p, "login"))
              => \/ "password" \notin DOMAIN loc'[p]
                 \/ loc'[p].password = "undefined"
      ]_vars

-----------------------------------------------------------------------------
(* Properties of the field cipher *)

\* the value passed to a call is the empty string or no string at all
EmptyInput(input) == input.type # "string" \/ input.value = ""

\* C28: an empty or absent input to encrypt or decrypt is rejected with the
\* call's own non-empty-string error, before any key derivation and any
\* cipher operation, in every key configuration (a missing key included),
\* and nothing is added to the fields returned so far.
C28_EmptyInputRejectedFirst ==
    [][\A p \in Procs :
          (\E op \in {"encrypt", "decrypt"} : Starts(p, op))
              /\ EmptyInput(loc'[p].input)
          => /\ pc'[p] = "failed"
             /\ loc'[p].error =
                    (IF loc'[p].op = "encrypt"
                        THEN "SSN must be a non-empty string"
                     ELSE "Encrypted SSN must be a non-empty string")
             /\ ~loc'[p].derived
             /\ ~loc'[p].ciphered
             /\ vault' = vault]_vars

\* an absent value was passed to encrypt while no key is configured and was
\* rejected as an empty input
C28_Witness ==
    /\ env.ENCRYPTION_KEY = ""
    /\ pc[1] = "failed"
    /\ loc[1].op = "encrypt"
    /\ loc[1].input.type = "undefined"
    /\ loc[1].error = "SSN must be a non-empty string"

\* text is three non-empty segments delimited by two colons
ThreeSegments(text) ==
    LET colons == {i \in 1..Len(text) : SubSeq(text, i, i) = ":"} IN
    /\ Cardinality(colons) = 2
    /\ 1 \notin colons
    /\ Len(text) \notin colons
    /\ \A i \in colons : i + 1 \notin colons

\* C26: decrypt accepts only a value of exactly three colon-delimited
\* non-empty segments; a non-empty text of any other shape, three parts with
\* an empty segment included, fails with the malformed-format error before
\* the key derivation and before any cipher operation; and every field that
\* encrypt returned has that shape.
C26_OnlyThreeSegments ==
    /\ \A i \in 1..Len(vault) : ThreeSegments(vault[i].field)
    /\ \A p \in Procs :
          (loc[p].op = "decrypt" /\ ~EmptyInput(loc[p].input)
              /\ ~ThreeSegments(loc[p].input.value))
          => /\ pc[p] = "failed"
             /\ loc[p].error = "Invalid encrypted SSN format"
             /\ ~loc[p].derived
             /\ ~loc[p].ciphered

\* C24: decrypting a field that encrypt returned for a non-empty value v, in
\* the key configuration it was encrypted in, succeeds and returns exactly v,
\* after any number of encrypt and decrypt calls.
C24_RoundTrip ==
    \A p \in Procs : \A i \in 1..Len(vault) :
        (loc[p].op = "decrypt" /\ loc[p].input.value = vault[i].field)
        => /\ pc[p] = "done"
           /\ loc[p].value = vault[i].ssn

\* C25: decrypting a copy of a returned field in which one character of the
\* iv, ciphertext or tag segment was changed fails, and returns no
\* plaintext.
C25_TamperFailsClosed ==
    \A p \in Procs :
        (loc[p].op = "decrypt"
            /\ \A i \in 1..Len(vault) : loc[p].input.value # vault[i].field)
        => /\ pc[p] = "failed"
           /\ loc[p].value = ""

-----------------------------------------------------------------------------
(* Properties of the session store: rotation, lifetime, isolation *)

\* C31: a validate of the token of a session row that is outside the
\* 5-minute buffer returns the row's principal, leaves the session rows
\* (token and expiresAt) as they were and signs no token; and no step of any
\* operation moves the expiresAt of a stored row to a later time.
C31_NeverRotated ==
    [][/\ \A p \in Procs :
             Starts(p, "validate")
             => /\ \A s \in SessionsByToken(sessions, loc'[p].token) :
                      ~BufferExpired(s.expiresAt, now)
                      => loc'[p].result = s.userId
                /\ loc'[p].result # Unauthenticated
                      => sessions' = sessions /\ issued' = issued
       /\ \/ sessions' = sessions
          \/ \A s \in sessions : \A r \in sessions' :
                r.token = s.token => r.expiresAt <= s.expiresAt
      ]_vars

\* a validate has resolved the principal of a session after the clock moved
\* on, and the row is stored with the expiry it was created with
C31_Witness ==
    \E p \in Procs :
        /\ DoneWith(p, "validate")
        /\ loc[p].result # Unauthenticated
        /\ loc[p].at > loc[p].token.iat
        /\ \E s \in SessionsByToken(sessions, loc[p].token) :
               s.expiresAt = ExpiresAt(loc[p].token.iat)

\* C32: a login or signup that returns at time t has stored a row with the
\* returned token and expiresAt = t + 7 days; a stored row leaves the store
\* only by a login of its principal, by a logout of its token or by a
\* validate of its token at or after expiresAt - 5 minutes; and a validate
\* of the token of a stored row before expiresAt - 5 minutes yields the
\* row's principal. So validate of the returned token yields the principal
\* from t up to t + 7 days - 5 minutes, unless a logout or a later login of
\* the principal came in between.
C32_SessionLifetime ==
    [][/\ \A p \in Procs :
             (Completes(p, "login") \/ Completes(p, "signup"))
             => /\ loc'[p].token.iat = now
                /\ [userId |-> loc'[p].userId, token |-> loc'[p].token,
                    expiresAt |-> now + SESSION_LIFETIME] \in sessions'
       /\ \A s \in sessions \ sessions' :
             \E p \in Procs :
                 \/ pc[p] = "login_delete" /\ pc'[p] = "login_insert"
                       /\ loc[p].userId = s.userId
                 \/ pc[p] = "logout_delete" /\ pc'[p] = "logout_verify"
                       /\ loc[p].token = s.token
                 \/ Starts(p, "validate") /\ loc'[p].token = s.token
                       /\ now >= s.expiresAt - SESSION_BUFFER
       /\ \A p \in Procs :
             Starts(p, "validate")
             => \A s \in SessionsByToken(sessions, loc'[p].token) :
                    now < s.expiresAt - SESSION_BUFFER
                    => loc'[p].result = s.userId /\ s \in sessions'
      ]_vars

\* the token a login or signup returned at time t has been validated one
\* minute later and resolved its principal; its row expires at t + 7 days
C32_Witness ==
    \E p \in Procs :
        /\ DoneWith(p, "validate")
        /\ loc[p].at = loc[p].token.iat + 1
        /\ loc[p].result = loc[p].token.userId
        /\ [userId |-> loc[p].result, token |-> loc[p].token,
            expiresAt |-> loc[p].token.iat + SESSION_LIFETIME] \in sessions

-----------------------------------------------------------------------------
(* Properties of the key derivation *)

\* C33: the key derived in a key configuration is the same in every call,
\* whether or not ENCRYPTION_SALT is set: whatever the random source returns
\* to a call, the call derives the same key as every other call, and every
\* field an encrypt call returned is decrypted to its plaintext by a later
\* decrypt call.
C33_KeyFixedPerProcess ==
    /\ \A r, q \in SaltDraws(env) :
          vault # <<>> => EncryptionKeys[env][r] = EncryptionKeys[env][q]
    /\ \A i \in 1..Len(vault) : \A r \in SaltDraws(env) :
          \E result \in {DecryptSSN(env, [type |-> "string",
                                          value |-> vault[i].field], r)} :
              result.ok /\ result.value = vault[i].ssn

\* C34: the step in which login looks the user up and compares the password
\* leaves the session store unchanged, and a login with an unknown email or
\* a wrong password ends in that step; session rows are deleted by a login
\* only in its delete step, which a login reaches only with a verified
\* password.
C34_FailedLoginKeepsSessions ==
    [][\A p \in Procs :
          /\ Starts(p, "login")
                => /\ sessions' = sessions
                   /\ \A email \in Emails, password \in Passwords :
                         (/\ LoginFind(p, email, password)
                          /\ LoginError(InputEmail[email], password) # NoError)
                         => pc'[p] = "failed"
          /\ (Acts(p) /\ loc'[p].op = "login" /\ sessions \ sessions' # {})
                => pc[p] = "login_delete"
          /\ (Acts(p) /\ pc'[p] = "failed" /\ loc'[p].op = "login"
                 /\ loc'[p].error = "UNAUTHORIZED")
                => sessions' = sessions
      ]_vars

\* a login with a wrong password for a principal that has a session has
\* failed, and the session is still stored
C34_Witness ==
    \E p \in Procs :
        /\ pc[p] = "failed"
        /\ loc[p].op = "login"
        /\ loc[p].error = "UNAUTHORIZED"
        /\ \E u \in users : SessionsOfUser(sessions, u.id) # {}
        /\ started = 1

\* the principal a login, signup or logout request is performed for, once
\* the request has resolved it
RequestPrincipal(request) ==
    IF request.op = "logout" THEN request.user ELSE request.userId

\* C35: every step of a login, signup or logout that inserts, deletes or
\* changes session rows touches only rows of the principal the request is
\* performed for, whatever other requests are in flight.
C35_PrincipalIsolation ==
    [][\A p \in Procs :
          Acts(p)
          => \/ sessions' = sessions
             \/ /\ started' = started
                /\ loc[p].op \in {"login", "signup", "logout"}
                /\ \A s \in (sessions \ sessions') \cup (sessions' \ sessions) :
                      s.userId = RequestPrincipal(loc[p])
      ]_vars

\* a login of the first principal has replaced its session while the second
\* principal holds one, and a logout of one of them has deleted its row
C35_Witness ==
    /\ \E p \in Procs :
          /\ DoneWith(p, "login")
          /\ loc[p].deleted > 0
          /\ \E s \in sessions : s.userId # loc[p].userId
    /\ \E p \in Procs :
          /\ DoneWith(p, "logout")
          /\ loc[p].deleted

-----------------------------------------------------------------------------
(* Properties of the ledger under interleaving *)

\* C36: the balance of an account never decreases: every write of a balance
\* stores a value that is at least the value stored immediately before it.
C36_BalanceNeverDecreases ==
    [][\A a \in DOMAIN accounts :
          a \in DOMAIN accounts' /\ accounts'[a].balance >= accounts[a].balance
      ]_vars

\* the rows a step appends to the transaction table
Appended == SubSeq(transactions', Len(transactions) + 1, Len(transactions'))

\* C37: the transaction table only grows at its end: every step leaves the
\* stored rows as they are; a deposit appends exactly one row, in its insert
\* step, of type deposit, status completed, with the requested amount and
\* account, and a deposit returns only after that step; no other step of any
\* operation appends a row.
C37_TransactionsAppendOnly ==
    [][/\ Len(transactions') >= Len(transactions)
       /\ SubSeq(transactions', 1, Len(transactions)) = transactions
       /\ \A p \in Procs :
             Acts(p)
             => /\ IF pc[p] = "fund_insert" /\ pc'[p] = "fund_readback"
                      THEN /\ Len(Appended) = 1
                           /\ Appended[1].type = "deposit"
                           /\ Appended[1].status = "completed"
                           /\ Appended[1].amount = loc[p].amount
                           /\ Appended[1].accountId = loc[p].accountId
                      ELSE Appended = <<>>
                /\ pc'[p] = "fund_readback" => pc[p] = "fund_insert"
                /\ pc'[p] = "fund_update" => pc[p] = "fund_readback"
                /\ Completes(p, "fund") => pc[p] = "fund_update"
      ]_vars

\* a deposit has returned and its row is stored, after an account was opened
C37_Witness ==
    \E p \in Procs :
        /\ DoneWith(p, "fund")
        /\ Len(accounts) > 1
        /\ \E i \in 1..Len(transactions) :
              /\ transactions[i].accountId = loc[p].accountId
              /\ transactions[i].amount = loc[p].amount
              /\ transactions[i].type = "deposit"

-----------------------------------------------------------------------------
(* Properties of createAccount under interleaving *)

\* C38: of two overlapping createAccount calls of one principal for one
\* account type at most one succeeds, and the principal never holds more
\* than one account of a type.
C38_OneConcurrentCreateWins ==
    /\ \A p, q \in Procs :
          (/\ DoneWith(p, "create") /\ DoneWith(q, "create")
           /\ loc[p].userId = loc[q].userId
           /\ loc[p].accountType = loc[q].accountType)
          => loc[p].account.id = loc[q].account.id
    /\ \A userId \in Principals, accountType \in AccountTypes :
          Cardinality(AccountsOfType(accounts, userId, accountType)) <= 1

-----------------------------------------------------------------------------
(* Properties of signup under interleaving *)

====
